---- MODULE Spec2Model ----
(***************************************************************************)
(* A model of the position-based-fluids simulator, class Simulation        *)
(* (Simulation.h / Simulation.cpp) and its bounding box AABB (AABB.h).     *)
(*                                                                         *)
(* Lengths are integers: one model unit is 0.25 world units, the step of   *)
(* the COMPRESS animation, so that every quantity the host computes is an  *)
(* integer or a ratio of integers.  Time is counted in steps (dt = 1) for  *)
(* the particles; the animation keeps dt = 1/DtInv.                        *)
(*                                                                         *)
(* The OpenCL kernels (kernels/Simulation.cl) and the class PrefixSum are   *)
(* not among the sources at hand.  What the host binds to them and the     *)
(* order in which it runs them is modelled from Simulation.cpp; what each  *)
(* kernel computes is modelled from the written specification, and those   *)
(* definitions say so.                                                     *)
(***************************************************************************)
EXTENDS Integers, Sequences, FiniteSets, TLC

(***************************************************************************)
(* Bounds of the model                                                     *)
(***************************************************************************)
\* Constants::SOLVER_ITERATIONS, the N of step(); its value is not in the
\* sources at hand, so it is a bound of the model
SOLVER_ITERATIONS == 2
\* step() is not called once frameNumber has reached MaxFrames
MaxFrames == 3
\* the public operations other than step() number at most MaxCalls in a run
MaxCalls == 3
\* particles of the grid-build specification SpecGrid
GridParticles == 2
\* longest array the scan specification SpecScan scans
MaxScanLen == 4
\* largest entry of an array SpecScan scans
MaxCount == 2
\* steps of the animation specification SpecAnim
AnimFrames == 8

(***************************************************************************)
(* Program constants                                                       *)
(***************************************************************************)
\* Constants::PARTICLES_PER_CELL_X, _Y, _Z ("no cell contains more than 4")
PARTICLES_PER_CELL_X == 4
PARTICLES_PER_CELL_Y == 4
PARTICLES_PER_CELL_Z == 4
\* 1 / Constants::DEFAULT_DT ("usually 1/30")
DtInv == 30
\* animAmp(10.0f) of the constructors in model units, animPeriod(1.0f) in tenths
DefaultAnimAmp == 40
DefaultAnimPeriod == 10
\* the 0.25f of the COMPRESS animation, in model units
CompressStep == 1
\* the 0.66 of stepBoundsAnimation, in hundredths
CompressLimitPct == 66
\* animFrameNumber % 720
SinePeriodFrames == 720

(***************************************************************************)
(* Arithmetic                                                              *)
(***************************************************************************)
Min2(a, b) == IF a <= b THEN a ELSE b

Max2(a, b) == IF a >= b THEN a ELSE b

\* floor(a / b) for b # 0
FloorDiv(a, b) == IF b > 0 THEN a \div b ELSE (0 - a) \div (0 - b)

\* ceil(a / b) for b # 0
CeilDiv(a, b) == 0 - FloorDiv(0 - a, b)

\* a / b rounded towards zero, b > 0
TruncDiv(a, b) == IF a >= 0 THEN a \div b ELSE 0 - ((0 - a) \div b)

Pow2(k) == 2 ^ k

\* an unsigned int after an increment: the counters of the model stay below
\* MaxFrames, far from 2^32, where they would wrap to 0
UIntWrap(v) == v

(***************************************************************************)
(* ofVec3f / float4, and AABB                                              *)
(***************************************************************************)
Axes == {"x", "y", "z"}

Vec(a, b, c) == [x |-> a, y |-> b, z |-> c]

Zero == Vec(0, 0, 0)

VAdd(u, v) == [a \in Axes |-> u[a] + v[a]]

VSub(u, v) == [a \in Axes |-> u[a] - v[a]]

\* squared Euclidean distance
Dist2(u, v) ==
    LET d == VSub(u, v) IN d.x * d.x + d.y * d.y + d.z * d.z

AABB(p, q) == [minV |-> p, maxV |-> q]

ValidBox(b) == \A a \in Axes : b.minV[a] < b.maxV[a]

InBox(p, b) == \A a \in Axes : b.minV[a] <= p[a] /\ p[a] <= b.maxV[a]

(***************************************************************************)
(* State                                                                   *)
(***************************************************************************)
VARIABLES
    pc,                   \* where the host is: "idle", or the pass of step() that runs next
    iter,                 \* the i of the solver loop of step()
    done,                 \* work-items of the running kernel that have finished
    frameNumber,
    animFrameNumber,
    bounds,
    originalBounds,
    animBounds,
    animType,
    animPeriod,           \* in tenths
    animAmp,
    animBothSides,
    cellsPerAxis,
    numCells,
    numParticles,
    parameters,
    parameterBuffer,
    particles,
    particleToCell,
    sortedParticleToCell,
    cellHistogram,
    cellPrefixSums,
    gridCellOffsets,
    posDelta,
    kernelArgs,           \* the minExt / maxExt arguments bound to each kernel
    scanTemp,             \* PrefixSum: the scratch array of the running scan
    scanPhase,            \* PrefixSum: "load", "up", "clear", "down", "store", "done"
    scanStride,           \* PrefixSum: the stride of the running sweep level
    scanFault,            \* history: the scan touched an element outside 0 .. n-1
    log,                  \* history: the kernels step() has dispatched so far
    stepCalls,            \* history: calls of step() since construction or reset()
    calls,                \* history: calls of the other public operations
    lastOp                \* history: "reset" or "resetBounds" if that operation ran last, "stepFailed" after a failed dispatch

hostVars == <<frameNumber, animFrameNumber, bounds, originalBounds, animBounds,
              animType, animPeriod, animAmp, animBothSides, cellsPerAxis,
              numCells, numParticles, parameters, parameterBuffer>>

animSettings == <<animBounds, animType, animPeriod, animAmp, animBothSides>>

gridVars == <<particleToCell, sortedParticleToCell, cellHistogram,
              cellPrefixSums, gridCellOffsets>>

scanVars == <<scanTemp, scanPhase, scanStride, scanFault>>

vars == <<pc, iter, done, hostVars, particles, gridVars, posDelta, kernelArgs,
          scanVars, log, stepCalls, calls, lastOp>>

(***************************************************************************)
(* Construction                                                            *)
(***************************************************************************)
AnimationType == {"SINE_WAVE", "LINEAR_RAMP", "COMPRESS"}

\* the kernels setupKernels binds minExt and maxExt to
BoundsKernels == {"discretizeParticlePositions", "estimateDensity",
                  "computeLambda", "computePositionDelta", "resolveCollisions",
                  "computeCurl", "updatePosition"}

\* what a freshly allocated device buffer may hold
JunkVals == {0, 9}

\* struct Parameters: of its fields the model keeps the particle radius and
\* the relaxation epsilon of computeLambda
ParametersWith(radius, eps) == [particleRadius |-> radius, relaxation |-> eps]

\* parameters with a relaxation epsilon of one model unit
Parameters(radius) == ParametersWith(radius, 1)

\* ofRandom(a, b) with a = a4 / 4 and b = b4 / 4: a value of
\* [min(a, b), max(a, b)); the samples are the least and the greatest lattice
\* point of that range (its lower end when it holds none)
OfRandom(a4, b4) ==
    LET lo == CeilDiv(Min2(a4, b4), 4)
        hi == CeilDiv(Max2(a4, b4), 4) - 1
    IN  IF lo <= hi THEN {lo, hi} ELSE {FloorDiv(Min2(a4, b4), 4)}

\* the positions the loop of initializeBuffers may give a particle
InitPositions(b, radius) ==
    LET p1 == b.minV
        p2 == b.maxV
    IN  { Vec(px, py, pz) :
            px \in OfRandom(4 * (p1.x + radius), 4 * (p2.x - radius)),
            py \in OfRandom(4 * (p1.y + radius), p2.y - radius),
            pz \in OfRandom(4 * (p1.z + radius), 4 * (p2.z - radius)) }

Particle(p) == [pos |-> p, posStar |-> Zero, vel |-> Zero]

FindIdealParticleCount(b, radius) ==
    Vec(CeilDiv(b.maxV.x - b.minV.x, radius * PARTICLES_PER_CELL_X),
        CeilDiv(b.maxV.y - b.minV.y, radius * PARTICLES_PER_CELL_Y),
        CeilDiv(b.maxV.z - b.minV.z, radius * PARTICLES_PER_CELL_Z))

NumCellsOf(cpa) == cpa.x * cpa.y * cpa.z

ParticleIds == 0 .. (numParticles - 1)

CellIds == 0 .. (numCells - 1)

JunkPosition(j) ==
    [particleIndex |-> j, cellI |-> j, cellJ |-> j, cellK |-> j, key |-> j]

JunkOffset(j) == [start |-> j, length |-> j]

\* initializeBuffers: the buffers are allocated, not filled, and the
\* particles get a random position, no predicted position and no velocity
InitializeBuffers(n, nc, place, j) ==
    /\ numCells' = nc
    /\ particles' = [i \in 0 .. (n - 1) |-> Particle(place[i])]
    /\ particleToCell' = [i \in 0 .. (n - 1) |-> JunkPosition(j)]
    /\ sortedParticleToCell' = [i \in 0 .. (n - 1) |-> JunkPosition(j)]
    /\ gridCellOffsets' = [c \in 0 .. (nc - 1) |-> JunkOffset(j)]
    /\ cellHistogram' = [c \in 0 .. (nc - 1) |-> j]
    /\ cellPrefixSums' = [c \in 0 .. (nc - 1) |-> j]
    /\ posDelta' = [i \in 0 .. (n - 1) |-> Vec(j, j, j)]

\* setupKernels: every kernel that takes the bounds gets the bounds of now
SetupKernels(b) == [k \in BoundsKernels |-> b]

\* the state of the scan when no scan runs
ScanIdle ==
    /\ scanTemp = <<>>
    /\ scanPhase = "done"
    /\ scanStride = 0
    /\ scanFault = FALSE

\* Simulation::Simulation(openCL, bounds, numParticles, parameters), which
\* chooses the cells itself, followed by initialize()
Constructed(b, n, cpa, prm, place, j) ==
    /\ pc = "idle"
    /\ iter = 0
    /\ done = {}
    /\ frameNumber = 0
    /\ animFrameNumber = 0
    /\ bounds = b
    /\ originalBounds = b
    /\ animBounds = FALSE
    /\ animType = "SINE_WAVE"
    /\ animPeriod = DefaultAnimPeriod
    /\ animAmp = DefaultAnimAmp
    /\ animBothSides = FALSE
    /\ cellsPerAxis = cpa
    /\ numParticles = n
    /\ parameters = prm
    /\ numCells = NumCellsOf(cpa)
    /\ particles = [i \in 0 .. (n - 1) |-> Particle(place[i])]
    /\ particleToCell = [i \in 0 .. (n - 1) |-> JunkPosition(j)]
    /\ sortedParticleToCell = [i \in 0 .. (n - 1) |-> JunkPosition(j)]
    /\ gridCellOffsets = [c \in 0 .. (NumCellsOf(cpa) - 1) |-> JunkOffset(j)]
    /\ cellHistogram = [c \in 0 .. (NumCellsOf(cpa) - 1) |-> j]
    /\ cellPrefixSums = [c \in 0 .. (NumCellsOf(cpa) - 1) |-> j]
    /\ posDelta = [i \in 0 .. (n - 1) |-> Vec(j, j, j)]
    /\ kernelArgs = SetupKernels(b)
    /\ parameterBuffer = prm
    /\ ScanIdle
    /\ log = <<>>
    /\ stepCalls = 0
    /\ calls = 0
    /\ lastOp = "other"

(***************************************************************************)
(* The bounds animation                                                    *)
(***************************************************************************)
\* sin of deg degrees, times amp: Bhaskara's rational approximation of the
\* sine, 4x(180 - x) / (40500 - x(180 - x)) on 0 .. 180, rounded towards zero
SineTimes(amp, deg) ==
    LET d == deg % 360
        h == d % 180
        m == (amp * 4 * h * (180 - h)) \div (40500 - h * (180 - h))
    IN  IF d < 180 THEN m ELSE 0 - m

\* a sine of the frame counter itself, without the % 720
SineValueUnwrapped(amp, period, f) ==
    SineTimes(amp, (355 * period * f) \div (113 * 10))

\* animAmp * sin(animPeriod * pi * ofDegToRad(animFrameNumber % 720)): the
\* angle is animPeriod * pi * (animFrameNumber % 720) degrees, pi = 355/113
SineValue(amp, period, f) ==
    SineTimes(amp, (355 * period * (f % SinePeriodFrames)) \div (113 * 10))

\* the absolute value of the ramp: a triangle wave
RampValueTriangle(amp, period, f) ==
    LET q  == DtInv * period
        fl == FloorDiv(q + 20 * f, 2 * q)
        d  == 10 * f - fl * q
    IN  TruncDiv(2 * amp * (IF d >= 0 THEN d ELSE 0 - d), q)

\* 2 * animAmp * (tPeriod - floor(0.5 + tPeriod)), tPeriod = (t / animPeriod) * dt
RampValue(amp, period, f) ==
    LET q  == DtInv * period
        fl == FloorDiv(q + 20 * f, 2 * q)
    IN  TruncDiv(2 * amp * (10 * f - fl * q), q)

\* a max corner that COMPRESS moves in every frame, limit or not
AnimMaxXNoLimit(b, ob, type, amp, period, f) ==
    LET origMaxX == ob.maxV.x
    IN  CASE type = "SINE_WAVE"   -> origMaxX - SineValue(amp, period, f)
          [] type = "LINEAR_RAMP" -> origMaxX - RampValue(amp, period, f)
          [] type = "COMPRESS"    -> b.maxV.x - CompressStep

\* the x of the max corner after stepBoundsAnimation
AnimMaxX(b, ob, type, amp, period, f) ==
    LET origMaxX == ob.maxV.x
        width    == ob.maxV.x - ob.minV.x
    IN  CASE type = "SINE_WAVE"   -> origMaxX - SineValue(amp, period, f)
          [] type = "LINEAR_RAMP" -> origMaxX - RampValue(amp, period, f)
          [] type = "COMPRESS"    ->
                IF 200 * b.maxV.x >= 200 * origMaxX - CompressLimitPct * width
                THEN b.maxV.x - CompressStep
                ELSE b.maxV.x

\* a min corner that the waves move from where it is, not from where it was
\* at construction
AnimMinXFromCurrent(b, ob, type, amp, period, both, f) ==
    LET origMinX == ob.minV.x
        width    == ob.maxV.x - ob.minV.x
    IN  CASE type = "SINE_WAVE"   ->
                IF both THEN b.minV.x + SineValue(amp, period, f) ELSE b.minV.x
          [] type = "LINEAR_RAMP" ->
                IF both THEN b.minV.x + RampValue(amp, period, f) ELSE b.minV.x
          [] type = "COMPRESS"    ->
                IF both /\ 200 * b.minV.x <= 200 * origMinX + CompressLimitPct * width
                THEN b.minV.x + CompressStep
                ELSE b.minV.x

\* the x of the min corner after stepBoundsAnimation
AnimMinX(b, ob, type, amp, period, both, f) ==
    LET origMinX == ob.minV.x
        width    == ob.maxV.x - ob.minV.x
    IN  CASE type = "SINE_WAVE"   ->
                IF both THEN origMinX + SineValue(amp, period, f) ELSE b.minV.x
          [] type = "LINEAR_RAMP" ->
                IF both THEN origMinX + RampValue(amp, period, f) ELSE b.minV.x
          [] type = "COMPRESS"    ->
                IF both /\ 200 * b.minV.x <= 200 * origMinX + CompressLimitPct * width
                THEN b.minV.x + CompressStep
                ELSE b.minV.x

\* a stepBoundsAnimation that moves the max corner along every axis by what
\* it moves it along x
StepBoundsAnimationAllAxes(b, ob, type, amp, period, both, f) ==
    AABB([b.minV EXCEPT !.x = AnimMinX(b, ob, type, amp, period, both, f)],
         [a \in Axes |->
            b.maxV[a] - (b.maxV.x - AnimMaxX(b, ob, type, amp, period, f))])

\* the bounds after stepBoundsAnimation
StepBoundsAnimation(b, ob, type, amp, period, both, f) ==
    AABB([b.minV EXCEPT !.x = AnimMinX(b, ob, type, amp, period, both, f)],
         [b.maxV EXCEPT !.x = AnimMaxX(b, ob, type, amp, period, f)])

(***************************************************************************)
(* The public operations other than step(); the host runs them between     *)
(* steps                                                                   *)
(***************************************************************************)
\* what setBounds, setParameters and the animation setters are called with
SetBoundsInputs == {AABB(Vec(0, 0, 0), Vec(24, 8, 8))}

RadiusInputs == {4, 28}

AmpInputs == {DefaultAnimAmp, 800}

PeriodInputs == {DefaultAnimPeriod, 1}

stepVars == <<pc, iter, done, log, scanVars>>

\* a public operation other than step() is called: the host is between steps
Called ==
    /\ pc = "idle"
    /\ calls < MaxCalls
    /\ calls' = calls + 1

\* a resetBounds() that restores the bounds and leaves the animation where
\* it is
ResetBoundsKeepsFrame ==
    /\ Called
    /\ bounds' = originalBounds
    /\ lastOp' = "resetBounds"
    /\ UNCHANGED <<stepVars, frameNumber, animFrameNumber, originalBounds,
                   animSettings, cellsPerAxis, numCells, numParticles,
                   parameters, parameterBuffer, particles, gridVars, posDelta,
                   kernelArgs, stepCalls>>

\* a reset() that forgets the frame counter
FrameNumberKept == frameNumber

\* the frame counter after reset()
ResetFrameNumber == 0

\* the cells per axis after reset(): reset() leaves them alone
ResetCellsPerAxis == cellsPerAxis

\* resetBounds(): the animation starts over from the original bounds
ResetBounds ==
    /\ Called
    /\ animFrameNumber' = 0
    /\ bounds' = originalBounds
    /\ lastOp' = "resetBounds"
    /\ UNCHANGED <<stepVars, frameNumber, originalBounds, animSettings,
                   cellsPerAxis, numCells, numParticles, parameters,
                   parameterBuffer, particles, gridVars, posDelta, kernelArgs,
                   stepCalls>>

\* reset(): frameNumber = 0, initializeBuffers(), setupKernels(false),
\* resetBounds(), writeToGPU(); the particles are placed in, and the kernels
\* bound to, the bounds as they are when reset() is called
Reset ==
    /\ Called
    /\ frameNumber' = ResetFrameNumber
    /\ \E place \in [ParticleIds -> InitPositions(bounds, parameters.particleRadius)],
          j \in JunkVals :
            InitializeBuffers(numParticles, NumCellsOf(cellsPerAxis), place, j)
    /\ kernelArgs' = SetupKernels(bounds)
    /\ animFrameNumber' = 0
    /\ bounds' = originalBounds
    /\ parameterBuffer' = parameters
    /\ cellsPerAxis' = ResetCellsPerAxis
    /\ stepCalls' = 0
    /\ lastOp' = "reset"
    /\ UNCHANGED <<stepVars, originalBounds, animSettings, numParticles,
                   parameters>>

\* a setBounds that takes the new box for the original one as well
SetBoundsAndOriginal(b) ==
    /\ Called
    /\ bounds' = b
    /\ originalBounds' = b
    /\ lastOp' = "other"
    /\ UNCHANGED <<stepVars, frameNumber, animFrameNumber,
                   animSettings, cellsPerAxis, numCells, numParticles,
                   parameters, parameterBuffer, particles, gridVars, posDelta,
                   kernelArgs, stepCalls>>

SetBounds(b) ==
    /\ Called
    /\ bounds' = b
    /\ lastOp' = "other"
    /\ UNCHANGED <<stepVars, frameNumber, animFrameNumber, originalBounds,
                   animSettings, cellsPerAxis, numCells, numParticles,
                   parameters, parameterBuffer, particles, gridVars, posDelta,
                   kernelArgs, stepCalls>>

\* a setParameters that changes the host copy and never writes the device buffer
SetParametersHostOnly(prm) ==
    /\ Called
    /\ parameters' = prm
    /\ lastOp' = "other"
    /\ UNCHANGED <<stepVars, frameNumber, animFrameNumber, bounds,
                   originalBounds, animSettings, cellsPerAxis, numCells,
                   numParticles, parameterBuffer, particles, gridVars, posDelta,
                   kernelArgs, stepCalls>>

\* setParameters: the host copy, then the device buffer
SetParameters(prm) ==
    /\ Called
    /\ parameters' = prm
    /\ parameterBuffer' = prm
    /\ lastOp' = "other"
    /\ UNCHANGED <<stepVars, frameNumber, animFrameNumber, bounds,
                   originalBounds, animSettings, cellsPerAxis, numCells,
                   numParticles, particles, gridVars, posDelta, kernelArgs,
                   stepCalls>>

\* getParameters()
GetParameters == parameters

\* enableBoundsAnimation, disableBoundsAnimation, enableBothSidesAnimation,
\* disableBothSidesAnimation, setAnimationType, setAnimationPeriod,
\* setAnimationAmp
SetAnimation(on, both, type, period, amp) ==
    /\ Called
    /\ animBounds' = on
    /\ animBothSides' = both
    /\ animType' = type
    /\ animPeriod' = period
    /\ animAmp' = amp
    /\ lastOp' = "other"
    /\ UNCHANGED <<stepVars, frameNumber, animFrameNumber, bounds,
                   originalBounds, cellsPerAxis, numCells, numParticles,
                   parameters, parameterBuffer, particles, gridVars, posDelta,
                   kernelArgs, stepCalls>>

EnableBoundsAnimation ==
    /\ ~animBounds
    /\ SetAnimation(TRUE, animBothSides, animType, animPeriod, animAmp)

DisableBoundsAnimation ==
    /\ animBounds
    /\ SetAnimation(FALSE, animBothSides, animType, animPeriod, animAmp)

EnableBothSidesAnimation ==
    /\ ~animBothSides
    /\ SetAnimation(animBounds, TRUE, animType, animPeriod, animAmp)

DisableBothSidesAnimation ==
    /\ animBothSides
    /\ SetAnimation(animBounds, FALSE, animType, animPeriod, animAmp)

SetAnimationType(type) ==
    /\ type # animType
    /\ SetAnimation(animBounds, animBothSides, type, animPeriod, animAmp)

SetAnimationPeriod(period) ==
    /\ period # animPeriod
    /\ SetAnimation(animBounds, animBothSides, animType, period, animAmp)

SetAnimationAmp(amp) ==
    /\ amp # animAmp
    /\ SetAnimation(animBounds, animBothSides, animType, animPeriod, amp)

(***************************************************************************)
(* step(): the order of the passes                                         *)
(***************************************************************************)
\* a step() whose solver loop is left after its first iteration
NextPassOneIteration(k, i) ==
    CASE k = "resetParticleQuantities"     -> "resetCellQuantities"
      [] k = "resetCellQuantities"         -> "predictPosition"
      [] k = "predictPosition"             -> "discretizeParticlePositions"
      [] k = "discretizeParticlePositions" -> "scan"
      [] k = "scan"                        -> "countSortParticlesByCell"
      [] k = "countSortParticlesByCell"    -> "findParticleBins"
      [] k = "findParticleBins"            -> "estimateDensity"
      [] k = "estimateDensity"             -> "computeLambda"
      [] k = "computeLambda"               -> "computePositionDelta"
      [] k = "computePositionDelta"        -> "updatePositionDelta"
      [] k = "updatePositionDelta"         -> "computeCurl"
      [] k = "computeCurl"                 -> "updatePosition"
      [] k = "updatePosition"              -> "finish"
      [] k = "finish"                      -> "animate"
      [] k = "animate"                     -> "frame"
      [] k = "frame"                       -> "idle"

\* a step() whose resetQuantities does not run resetCellQuantities
NextPassNoCellReset(k, i) ==
    CASE k = "resetParticleQuantities"     -> "predictPosition"
      [] k = "predictPosition"             -> "discretizeParticlePositions"
      [] k = "discretizeParticlePositions" -> "scan"
      [] k = "scan"                        -> "countSortParticlesByCell"
      [] k = "countSortParticlesByCell"    -> "findParticleBins"
      [] k = "findParticleBins"            -> "estimateDensity"
      [] k = "estimateDensity"             -> "computeLambda"
      [] k = "computeLambda"               -> "computePositionDelta"
      [] k = "computePositionDelta"        -> "updatePositionDelta"
      [] k = "updatePositionDelta"         ->
            IF i + 1 < SOLVER_ITERATIONS THEN "estimateDensity" ELSE "computeCurl"
      [] k = "computeCurl"                 -> "updatePosition"
      [] k = "updatePosition"              -> "finish"
      [] k = "finish"                      -> "animate"
      [] k = "animate"                     -> "frame"
      [] k = "frame"                       -> "idle"

\* a step() whose grid build scans the histogram before it is filled
NextPassScanFirst(k, i) ==
    CASE k = "resetParticleQuantities"     -> "resetCellQuantities"
      [] k = "resetCellQuantities"         -> "predictPosition"
      [] k = "predictPosition"             -> "scan"
      [] k = "discretizeParticlePositions" -> "countSortParticlesByCell"
      [] k = "scan"                        -> "discretizeParticlePositions"
      [] k = "countSortParticlesByCell"    -> "findParticleBins"
      [] k = "findParticleBins"            ->
            IF 0 < SOLVER_ITERATIONS THEN "estimateDensity" ELSE "computeCurl"
      [] k = "estimateDensity"             -> "computeLambda"
      [] k = "computeLambda"               -> "computePositionDelta"
      [] k = "computePositionDelta"        -> "updatePositionDelta"
      [] k = "updatePositionDelta"         ->
            IF i + 1 < SOLVER_ITERATIONS THEN "estimateDensity" ELSE "computeCurl"
      [] k = "computeCurl"                 -> "updatePosition"
      [] k = "updatePosition"              -> "finish"
      [] k = "finish"                      -> "animate"
      [] k = "animate"                     -> "frame"
      [] k = "frame"                       -> "idle"

\* a solver iteration that applies the position deltas before it computes them
NextPassApplyFirst(k, i) ==
    CASE k = "resetParticleQuantities"     -> "resetCellQuantities"
      [] k = "resetCellQuantities"         -> "predictPosition"
      [] k = "predictPosition"             -> "discretizeParticlePositions"
      [] k = "discretizeParticlePositions" -> "scan"
      [] k = "scan"                        -> "countSortParticlesByCell"
      [] k = "countSortParticlesByCell"    -> "findParticleBins"
      [] k = "findParticleBins"            ->
            IF 0 < SOLVER_ITERATIONS THEN "estimateDensity" ELSE "computeCurl"
      [] k = "estimateDensity"             -> "computeLambda"
      [] k = "computeLambda"               -> "updatePositionDelta"
      [] k = "updatePositionDelta"         -> "computePositionDelta"
      [] k = "computePositionDelta"        ->
            IF i < SOLVER_ITERATIONS THEN "estimateDensity" ELSE "computeCurl"
      [] k = "computeCurl"                 -> "updatePosition"
      [] k = "updatePosition"              -> "finish"
      [] k = "finish"                      -> "animate"
      [] k = "animate"                     -> "frame"
      [] k = "frame"                       -> "idle"

\* a step() that waits for the queue before updatePosition is dispatched
NextPassFinishEarly(k, i) ==
    CASE k = "resetParticleQuantities"     -> "resetCellQuantities"
      [] k = "resetCellQuantities"         -> "predictPosition"
      [] k = "predictPosition"             -> "discretizeParticlePositions"
      [] k = "discretizeParticlePositions" -> "scan"
      [] k = "scan"                        -> "countSortParticlesByCell"
      [] k = "countSortParticlesByCell"    -> "findParticleBins"
      [] k = "findParticleBins"            ->
            IF 0 < SOLVER_ITERATIONS THEN "estimateDensity" ELSE "computeCurl"
      [] k = "estimateDensity"             -> "computeLambda"
      [] k = "computeLambda"               -> "computePositionDelta"
      [] k = "computePositionDelta"        -> "updatePositionDelta"
      [] k = "updatePositionDelta"         ->
            IF i + 1 < SOLVER_ITERATIONS THEN "estimateDensity" ELSE "computeCurl"
      [] k = "computeCurl"                 -> "finish"
      [] k = "updatePosition"              -> "animate"
      [] k = "finish"                      -> "updatePosition"
      [] k = "animate"                     -> "frame"
      [] k = "frame"                       -> "idle"

\* a step() that builds the grid anew before every solver iteration
NextPassRegrid(k, i) ==
    CASE k = "resetParticleQuantities"     -> "resetCellQuantities"
      [] k = "resetCellQuantities"         -> "predictPosition"
      [] k = "predictPosition"             -> "discretizeParticlePositions"
      [] k = "discretizeParticlePositions" -> "scan"
      [] k = "scan"                        -> "countSortParticlesByCell"
      [] k = "countSortParticlesByCell"    -> "findParticleBins"
      [] k = "findParticleBins"            ->
            IF 0 < SOLVER_ITERATIONS THEN "estimateDensity" ELSE "computeCurl"
      [] k = "estimateDensity"             -> "computeLambda"
      [] k = "computeLambda"               -> "computePositionDelta"
      [] k = "computePositionDelta"        -> "updatePositionDelta"
      [] k = "updatePositionDelta"         ->
            IF i + 1 < SOLVER_ITERATIONS THEN "discretizeParticlePositions"
            ELSE "computeCurl"
      [] k = "computeCurl"                 -> "updatePosition"
      [] k = "updatePosition"              -> "finish"
      [] k = "finish"                      -> "animate"
      [] k = "animate"                     -> "frame"
      [] k = "frame"                       -> "idle"

\* the pass step() runs after pass k, i being the solver iteration k is in
NextPass(k, i) ==
    CASE k = "resetParticleQuantities"     -> "resetCellQuantities"
      [] k = "resetCellQuantities"         -> "predictPosition"
      [] k = "predictPosition"             -> "discretizeParticlePositions"
      [] k = "discretizeParticlePositions" -> "scan"
      [] k = "scan"                        -> "countSortParticlesByCell"
      [] k = "countSortParticlesByCell"    -> "findParticleBins"
      [] k = "findParticleBins"            ->
            IF 0 < SOLVER_ITERATIONS THEN "estimateDensity" ELSE "computeCurl"
      [] k = "estimateDensity"             -> "computeLambda"
      [] k = "computeLambda"               -> "computePositionDelta"
      [] k = "computePositionDelta"        -> "updatePositionDelta"
      [] k = "updatePositionDelta"         ->
            IF i + 1 < SOLVER_ITERATIONS THEN "estimateDensity" ELSE "computeCurl"
      [] k = "computeCurl"                 -> "updatePosition"
      [] k = "updatePosition"              -> "finish"
      [] k = "finish"                      -> "animate"
      [] k = "animate"                     -> "frame"
      [] k = "frame"                       -> "idle"

\* a kernel that runs as one pass: its work-items share no mutable state
PassDone(k) ==
    /\ pc = k
    /\ pc' = NextPass(k, iter)
    /\ log' = Append(log, k)
    /\ UNCHANGED <<done, scanVars, stepCalls, calls, lastOp>>

\* a dispatch that ends with the work-item that finishes first
WorkItemDoneFirstOnly(k, i) ==
    /\ pc = k
    /\ i \in ParticleIds \ done
    /\ done' = {}
    /\ pc' = NextPass(k, iter)
    /\ log' = Append(log, k)
    /\ UNCHANGED <<scanVars, stepCalls, calls, lastOp>>

\* work-item i of kernel k finishes; the queue is in order, so the next
\* kernel starts when the last work-item has
WorkItemDone(k, i) ==
    /\ pc = k
    /\ i \in ParticleIds \ done
    /\ done' = IF done \cup {i} = ParticleIds THEN {} ELSE done \cup {i}
    /\ pc' = IF done \cup {i} = ParticleIds THEN NextPass(k, iter) ELSE pc
    /\ log' = IF done = {} THEN Append(log, k) ELSE log
    /\ UNCHANGED <<scanVars, stepCalls, calls, lastOp>>

\* run1D(numParticles) of a simulation without particles: kernel k is
\* enqueued over no work-item and the queue moves on
EmptyDispatch(k) ==
    /\ pc = k
    /\ ParticleIds = {}
    /\ pc' = NextPass(k, iter)
    /\ log' = Append(log, k)
    /\ kernelArgs' = IF k = "discretizeParticlePositions"
                     THEN [kernelArgs EXCEPT ![k] = bounds]
                     ELSE kernelArgs
    /\ UNCHANGED <<iter, done, scanVars, stepCalls, calls, lastOp, hostVars,
                   particles, gridVars, posDelta>>

\* the kernels whose dispatch the fault specification lets fail
FaultKernels == {"resetParticleQuantities", "resetCellQuantities",
                 "predictPosition", "discretizeParticlePositions",
                 "countSortParticlesByCell", "findParticleBins",
                 "estimateDensity", "computeLambda", "computePositionDelta",
                 "updatePositionDelta", "computeCurl", "updatePosition"}

\* the dispatch of kernel k fails and the kernel does not run: the passes of
\* step() return nothing and step() tests nothing, so it goes on with the
\* next pass
DispatchFails(k) ==
    /\ pc = k
    /\ done = {}
    /\ lastOp # "stepFailed"
    /\ pc' = NextPass(k, iter)
    /\ iter' = IF k = "updatePositionDelta" THEN iter + 1 ELSE iter
    /\ lastOp' = "stepFailed"
    /\ UNCHANGED <<done, scanVars, log, stepCalls, calls, hostVars, particles,
                   gridVars, posDelta, kernelArgs>>

\* the dispatch of kernel k throws: step() catches nothing, so the exception
\* leaves it and the host has the simulation as it is
DispatchThrows(k) ==
    /\ pc = k
    /\ done = {}
    /\ lastOp # "stepFailed"
    /\ pc' = "idle"
    /\ iter' = 0
    /\ log' = <<>>
    /\ lastOp' = "stepFailed"
    /\ UNCHANGED <<done, scanVars, stepCalls, calls, hostVars, particles,
                   gridVars, posDelta, kernelArgs>>

\* step() is entered
StepEnter ==
    /\ pc = "idle"
    /\ pc' = "resetParticleQuantities"
    /\ iter' = 0
    /\ log' = <<>>
    /\ stepCalls' = stepCalls + 1
    /\ lastOp' = "other"
    /\ UNCHANGED <<done, scanVars, hostVars, particles, gridVars, posDelta,
                   kernelArgs, calls>>

\* step() is entered, MaxFrames times at most
StepBegin ==
    /\ frameNumber < MaxFrames
    /\ StepEnter

\* step() is entered, AnimFrames times at most
AnimStepBegin ==
    /\ frameNumber < AnimFrames
    /\ StepEnter

(***************************************************************************)
(* The grid: cell of a position, neighbours of a particle                  *)
(***************************************************************************)
\* floor((p - min) / cellSize) with cellSize = (max - min) / cells, on one
\* axis; nothing clamps it.  A box of no width divides by zero, and the
\* conversion of the quotient to int is undefined
CellCoord(p, mn, mx, cells) ==
    IF mx = mn THEN {0 - 1, 0, cells}
    ELSE {FloorDiv((p - mn) * cells, mx - mn)}

\* the subscripts GridMapper may give position p
Subscripts(p, b, cpa) ==
    { Vec(ci, cj, ck) :
        ci \in CellCoord(p.x, b.minV.x, b.maxV.x, cpa.x),
        cj \in CellCoord(p.y, b.minV.y, b.maxV.y, cpa.y),
        ck \in CellCoord(p.z, b.minV.z, b.maxV.z, cpa.z) }

\* sub2ind: key = i + j * GRIDWIDTH + k * GRIDWIDTH * GRIDHEIGHT
Sub2Ind(sub, cpa) == sub.x + sub.y * cpa.x + sub.z * cpa.x * cpa.y

SubscriptInGrid(sub, cpa) == \A a \in Axes : 0 <= sub[a] /\ sub[a] < cpa[a]

\* the particles of the slice of cell key c, as gridCellOffsets and
\* sortedParticleToCell give it; a cell whose start is -1 is not read
CellSlice(c) ==
    IF gridCellOffsets[c].start = 0 - 1 THEN {}
    ELSE { sortedParticleToCell[s].particleIndex :
             s \in { t \in ParticleIds :
                       /\ gridCellOffsets[c].start <= t
                       /\ t < gridCellOffsets[c].start + gridCellOffsets[c].length } }

\* NeighborQuery for a particle at predicted position p, whose subscript is
\* sub: the particles of the slices of the 3 x 3 x 3 cells around sub that
\* are in the grid and lie within the interaction radius h of p
NeighborsAt(p, sub, h) ==
    LET cells == { n \in { Vec(ci, cj, ck) : ci \in (sub.x - 1) .. (sub.x + 1),
                                             cj \in (sub.y - 1) .. (sub.y + 1),
                                             ck \in (sub.z - 1) .. (sub.z + 1) } :
                     SubscriptInGrid(n, cellsPerAxis) }
        cand  == UNION { CellSlice(Sub2Ind(n, cellsPerAxis)) : n \in cells }
    IN  { j \in cand \cap ParticleIds :
            Dist2(p, particles[j].posStar) <= h * h }

\* the neighbour sets a kernel running with bounds b may enumerate for
\* particle i: the kernel finds the cell of i from its predicted position
NeighborSets(i, b) ==
    { NeighborsAt(particles[i].posStar, sub, parameterBuffer.particleRadius) :
        sub \in Subscripts(particles[i].posStar, b, cellsPerAxis) }

(***************************************************************************)
(* step(): the passes before the scan                                      *)
(***************************************************************************)
\* the acceleration predictPosition integrates: gravity pulls along -y
Gravity == Vec(0, 0 - 1, 0)

\* the corrections computePositionDelta may give a particle that has a
\* neighbour other than itself: none, or one world unit along x
DeltaSet == {Zero, Vec(4, 0, 0)}

ResetPosition == JunkPosition(0 - 1)

ResetOffset == [start |-> 0 - 1, length |-> 0]

\* resetQuantities, first kernel: the per-particle scratch quantities
ResetParticleQuantities ==
    /\ PassDone("resetParticleQuantities")
    /\ particles' = [i \in ParticleIds |-> [particles[i] EXCEPT !.posStar = Zero]]
    /\ particleToCell' = [i \in ParticleIds |-> ResetPosition]
    /\ sortedParticleToCell' = [i \in ParticleIds |-> ResetPosition]
    /\ posDelta' = [i \in ParticleIds |-> Zero]
    /\ UNCHANGED <<iter, hostVars, cellHistogram, cellPrefixSums,
                   gridCellOffsets, kernelArgs>>

\* resetQuantities, second kernel: the per-cell scratch quantities
ResetCellQuantities ==
    /\ PassDone("resetCellQuantities")
    /\ cellHistogram' = [c \in CellIds |-> 0]
    /\ cellPrefixSums' = [c \in CellIds |-> 0]
    /\ gridCellOffsets' = [c \in CellIds |-> ResetOffset]
    /\ UNCHANGED <<iter, hostVars, particles, particleToCell,
                   sortedParticleToCell, posDelta, kernelArgs>>

\* predictPositions: an explicit Euler step, v += dt * f, x* = x + dt * v
PredictPosition ==
    /\ PassDone("predictPosition")
    /\ particles' =
         [i \in ParticleIds |->
            LET v == VAdd(particles[i].vel, Gravity)
            IN  [particles[i] EXCEPT !.vel = v,
                                     !.posStar = VAdd(particles[i].pos, v)]]
    /\ UNCHANGED <<iter, hostVars, gridVars, posDelta, kernelArgs>>

\* the bounds discretizeParticlePositions() binds before it runs the kernel
DiscretizeArgs == bounds

\* discretizeParticlePositions, work-item i: the cell of particle i from its
\* predicted position, and one more particle counted in that cell.  The
\* count of a key that is no cell is written outside the histogram
DiscretizeParticlePositions(i) ==
    /\ WorkItemDone("discretizeParticlePositions", i)
    /\ kernelArgs' = [kernelArgs EXCEPT !["discretizeParticlePositions"] = DiscretizeArgs]
    /\ \E sub \in Subscripts(particles[i].posStar, DiscretizeArgs, cellsPerAxis) :
         LET key == Sub2Ind(sub, cellsPerAxis)
         IN  /\ particleToCell' =
                  [particleToCell EXCEPT ![i] =
                     [particleIndex |-> i, cellI |-> sub.x, cellJ |-> sub.y,
                      cellK |-> sub.z, key |-> key]]
             /\ cellHistogram' =
                  IF key \in CellIds
                  THEN [cellHistogram EXCEPT ![key] = cellHistogram[key] + 1]
                  ELSE cellHistogram
    /\ UNCHANGED <<iter, hostVars, particles, sortedParticleToCell,
                   cellPrefixSums, gridCellOffsets, posDelta>>

(***************************************************************************)
(* PrefixSum::scan: the exclusive prefix sum, by an up-sweep and a         *)
(* down-sweep over a scratch array padded to a power of two; the           *)
(* work-items of one level run in any order and a barrier ends the level   *)
(***************************************************************************)
\* a scan that stops one cell short
ScanLengthShort == numCells - 1

\* the length sortParticlesByCell() has the histogram scanned over
ScanLength == numCells

\* the least power of two that is at least n, and at least 1
ScanSize(n) ==
    CHOOSE p \in { Pow2(k) : k \in 0 .. 6 } : p >= n /\ (p = 1 \/ p \div 2 < n)

\* the work-items of a level of stride s over a scratch array of size p
ScanWorkers(p, s) == 0 .. ((p \div (2 * s)) - 1)

\* the work-items of the load and of the store
ScanCopiers(p) == 0 .. (Max2(p \div 2, 1) - 1)

ScanLeft(s, t) == s * (2 * t + 1) - 1

ScanRight(s, t) == s * (2 * t + 2) - 1

\* the elements work-item t copies in and out
ScanPair(t) == {2 * t, 2 * t + 1}

UpSweepAt(temp, s, t) ==
    [temp EXCEPT ![ScanRight(s, t)] = temp[ScanRight(s, t)] + temp[ScanLeft(s, t)]]

DownSweepAt(temp, s, t) ==
    [temp EXCEPT ![ScanLeft(s, t)]  = temp[ScanRight(s, t)],
                 ![ScanRight(s, t)] = temp[ScanRight(s, t)] + temp[ScanLeft(s, t)]]

\* the barrier: item t ends level `workers` if it is the last of them
ScanBarrier(workers, t) == done \cup {t} = workers

ScanFrame == UNCHANGED <<iter, hostVars, particles, particleToCell,
                         sortedParticleToCell, cellHistogram, gridCellOffsets,
                         posDelta, kernelArgs, stepCalls, calls, lastOp>>

\* scan(cellPrefixSums, cellHistogram, numCells) is called
ScanBegin ==
    /\ pc = "scan"
    /\ scanPhase = "done"
    /\ scanPhase' = "load"
    /\ scanTemp' = [e \in 0 .. (ScanSize(ScanLength) - 1) |-> 0 - 1]
    /\ scanStride' = 0
    /\ scanFault' = FALSE
    /\ log' = Append(log, "scan")
    /\ UNCHANGED <<pc, done, cellPrefixSums>>
    /\ ScanFrame

\* work-item t loads its two elements, zero beyond the end of the input
ScanLoad(t) ==
    LET p == ScanSize(ScanLength)
    IN  /\ pc = "scan"
        /\ scanPhase = "load"
        /\ t \in ScanCopiers(p) \ done
        /\ scanTemp' = [e \in DOMAIN scanTemp |->
                          IF e \in ScanPair(t)
                          THEN (IF e < ScanLength /\ e \in DOMAIN cellHistogram
                                THEN cellHistogram[e] ELSE 0)
                          ELSE scanTemp[e]]
        /\ scanFault' = (scanFault \/ \E e \in ScanPair(t) :
                                        e < ScanLength /\ e \notin DOMAIN cellHistogram)
        /\ IF ScanBarrier(ScanCopiers(p), t)
           THEN /\ done' = {}
                /\ scanPhase' = IF p > 1 THEN "up" ELSE "clear"
                /\ scanStride' = 1
           ELSE /\ done' = done \cup {t}
                /\ UNCHANGED <<scanPhase, scanStride>>
        /\ UNCHANGED <<pc, log, cellPrefixSums>>
        /\ ScanFrame

\* up-sweep, work-item t of the level of stride scanStride
ScanUp(t) ==
    LET p == ScanSize(ScanLength)
    IN  /\ pc = "scan"
        /\ scanPhase = "up"
        /\ t \in ScanWorkers(p, scanStride) \ done
        /\ scanTemp' = UpSweepAt(scanTemp, scanStride, t)
        /\ IF ScanBarrier(ScanWorkers(p, scanStride), t)
           THEN /\ done' = {}
                /\ scanStride' = 2 * scanStride
                /\ scanPhase' = IF 2 * scanStride < p THEN "up" ELSE "clear"
           ELSE /\ done' = done \cup {t}
                /\ UNCHANGED <<scanPhase, scanStride>>
        /\ UNCHANGED <<pc, log, scanFault, cellPrefixSums>>
        /\ ScanFrame

\* one work-item clears the last element
ScanClear ==
    LET p == ScanSize(ScanLength)
    IN  /\ pc = "scan"
        /\ scanPhase = "clear"
        /\ scanTemp' = [scanTemp EXCEPT ![p - 1] = 0]
        /\ scanPhase' = IF p > 1 THEN "down" ELSE "store"
        /\ scanStride' = p \div 2
        /\ UNCHANGED <<pc, done, log, scanFault, cellPrefixSums>>
        /\ ScanFrame

\* down-sweep, work-item t of the level of stride scanStride
ScanDown(t) ==
    LET p == ScanSize(ScanLength)
    IN  /\ pc = "scan"
        /\ scanPhase = "down"
        /\ t \in ScanWorkers(p, scanStride) \ done
        /\ scanTemp' = DownSweepAt(scanTemp, scanStride, t)
        /\ IF ScanBarrier(ScanWorkers(p, scanStride), t)
           THEN /\ done' = {}
                /\ scanStride' = scanStride \div 2
                /\ scanPhase' = IF scanStride > 1 THEN "down" ELSE "store"
           ELSE /\ done' = done \cup {t}
                /\ UNCHANGED <<scanPhase, scanStride>>
        /\ UNCHANGED <<pc, log, scanFault, cellPrefixSums>>
        /\ ScanFrame

\* work-item t stores its two elements, those within the output; the last
\* store returns from scan
ScanStore(t) ==
    LET p == ScanSize(ScanLength)
    IN  /\ pc = "scan"
        /\ scanPhase = "store"
        /\ t \in ScanCopiers(p) \ done
        /\ cellPrefixSums' = [c \in DOMAIN cellPrefixSums |->
                                IF c \in ScanPair(t) /\ c < ScanLength
                                THEN scanTemp[c] ELSE cellPrefixSums[c]]
        /\ scanFault' = (scanFault \/ \E e \in ScanPair(t) :
                                        e < ScanLength /\ e \notin DOMAIN cellPrefixSums)
        /\ IF ScanBarrier(ScanCopiers(p), t)
           THEN /\ done' = {}
                /\ scanPhase' = "done"
                /\ scanTemp' = <<>>
                /\ scanStride' = 0
                /\ pc' = NextPass("scan", iter)
           ELSE /\ done' = done \cup {t}
                /\ UNCHANGED <<scanPhase, scanTemp, scanStride, pc>>
        /\ UNCHANGED log
        /\ ScanFrame

(***************************************************************************)
(* step(): the passes after the scan                                       *)
(***************************************************************************)
\* the slots countSortParticlesByCell may claim for a particle of key k: the
\* per-cell counter is the cell's entry of cellPrefixSums, post-incremented
\* atomically; for a key that is no cell the counter is read outside the
\* buffer, and the slot is any slot or none (-1)
ClaimedSlots(k) ==
    IF k \in CellIds THEN {cellPrefixSums[k]} ELSE ParticleIds \cup {0 - 1}

\* countSortParticlesByCell, work-item i: claim a slot, write the particle's
\* cell assignment there
CountSortParticlesByCell(i) ==
    /\ WorkItemDone("countSortParticlesByCell", i)
    /\ LET k == particleToCell[i].key
       IN  \E slot \in ClaimedSlots(k) :
             /\ cellPrefixSums' =
                  IF k \in CellIds
                  THEN [cellPrefixSums EXCEPT ![k] = cellPrefixSums[k] + 1]
                  ELSE cellPrefixSums
             /\ sortedParticleToCell' =
                  IF slot \in ParticleIds
                  THEN [sortedParticleToCell EXCEPT ![slot] = particleToCell[i]]
                  ELSE sortedParticleToCell
    /\ UNCHANGED <<iter, hostVars, particles, particleToCell, cellHistogram,
                   gridCellOffsets, posDelta, kernelArgs>>

\* the length of the run of equal keys that starts at slot s
RunLength(s) ==
    Cardinality({ t \in ParticleIds :
                    /\ s <= t
                    /\ \A u \in s .. t :
                         sortedParticleToCell[u].key = sortedParticleToCell[s].key })

\* findParticleBins, work-item i: if slot i starts a run of equal keys, the
\* cell of that key starts at i and is as long as the run
FindParticleBins(i) ==
    /\ WorkItemDone("findParticleBins", i)
    /\ LET k == sortedParticleToCell[i].key
           first == i = 0 \/ sortedParticleToCell[i - 1].key # k
       IN  gridCellOffsets' =
             IF first /\ k \in CellIds
             THEN [gridCellOffsets EXCEPT ![k] = [start |-> i, length |-> RunLength(i)]]
             ELSE gridCellOffsets
    /\ UNCHANGED <<iter, hostVars, particles, particleToCell,
                   sortedParticleToCell, cellHistogram, cellPrefixSums,
                   posDelta, kernelArgs>>

\* calculateDensity(): the density itself is not part of the model
EstimateDensity ==
    /\ PassDone("estimateDensity")
    /\ kernelArgs' = [kernelArgs EXCEPT !["estimateDensity"] = bounds]
    /\ UNCHANGED <<iter, hostVars, particles, gridVars, posDelta>>

\* a parameter buffer in which the relaxation epsilon is zero
LambdaParametersZeroed == [parameterBuffer EXCEPT !.relaxation = 0]

\* the parameters the computeLambda kernel reads: its argument 0
LambdaParameters == parameterBuffer

\* the gradient of the smoothing kernel between positions p and q, up to a
\* positive factor: along p - q, and zero where p = q
KernelGradient(p, q) == VSub(p, q)

Norm2(v) == Dist2(v, Zero)

RECURSIVE SumOfGradients(_, _)
\* the sum of the kernel gradients between p and the particles of set js
SumOfGradients(p, js) ==
    IF js = {} THEN Zero
    ELSE LET j == CHOOSE n \in js : TRUE
         IN  VAdd(KernelGradient(p, particles[j].posStar),
                  SumOfGradients(p, js \ {j}))

RECURSIVE SumOfGradientSquares(_, _)
\* the sum of the squared magnitudes of those gradients
SumOfGradientSquares(p, js) ==
    IF js = {} THEN 0
    ELSE LET j == CHOOSE n \in js : TRUE
         IN  Norm2(KernelGradient(p, particles[j].posStar))
                + SumOfGradientSquares(p, js \ {j})

\* the denominator of lambda for particle i with neighbour set ns: the
\* squared gradient of the constraint with respect to i itself and to each
\* neighbour, plus the relaxation epsilon
LambdaDenominator(i, ns) ==
    Norm2(SumOfGradients(particles[i].posStar, ns \ {i}))
       + SumOfGradientSquares(particles[i].posStar, ns \ {i})
       + LambdaParameters.relaxation

\* calculatePositionDelta(), first kernel: lambda is not part of the model
ComputeLambda ==
    /\ PassDone("computeLambda")
    /\ kernelArgs' = [kernelArgs EXCEPT !["computeLambda"] = bounds]
    /\ UNCHANGED <<iter, hostVars, particles, gridVars, posDelta>>

\* calculatePositionDelta(), second kernel: a sum over the neighbours, so
\* zero for a particle that has no neighbour but itself; every delta is
\* computed from the predicted positions as they are before any is applied
ComputePositionDelta ==
    /\ PassDone("computePositionDelta")
    /\ kernelArgs' = [kernelArgs EXCEPT !["computePositionDelta"] = bounds]
    /\ posDelta' \in [ParticleIds -> DeltaSet]
    /\ \A i \in ParticleIds :
         \/ posDelta'[i] = Zero
         \/ \E ns \in NeighborSets(i, bounds) : ns \ {i} # {}
    /\ UNCHANGED <<iter, hostVars, particles, gridVars>>

\* updatePositionDelta(): x* += delta, for every particle
UpdatePositionDelta ==
    /\ PassDone("updatePositionDelta")
    /\ particles' =
         [i \in ParticleIds |->
            [particles[i] EXCEPT !.posStar = VAdd(particles[i].posStar, posDelta[i])]]
    /\ iter' = iter + 1
    /\ UNCHANGED <<hostVars, gridVars, posDelta, kernelArgs>>

\* updatePosition(), first kernel: the curl is not part of the model
ComputeCurl ==
    /\ PassDone("computeCurl")
    /\ kernelArgs' = [kernelArgs EXCEPT !["computeCurl"] = bounds]
    /\ UNCHANGED <<iter, hostVars, particles, gridVars, posDelta>>

\* an updatePosition() that dispatches the kernel with the bounds it was
\* given last, without binding the current ones
UpdatePositionArgsAsBound == kernelArgs["updatePosition"]

\* the bounds updatePosition() binds before it runs the updatePosition kernel
UpdatePositionArgs == bounds

\* clamp(v, lo, hi) = min(max(v, lo), hi); with lo > hi the result of the
\* OpenCL built-in is undefined, and a build yields one end or the other
Clamp(v, lo, hi) == IF lo <= hi THEN {Min2(Max2(v, lo), hi)} ELSE {lo, hi}

\* the positions clamping p to box b may give
ClampToBox(p, b) ==
    { Vec(cx, cy, cz) : cx \in Clamp(p.x, b.minV.x, b.maxV.x),
                        cy \in Clamp(p.y, b.minV.y, b.maxV.y),
                        cz \in Clamp(p.z, b.minV.z, b.maxV.z) }

\* updatePosition(), second kernel: v = (x* - x) / dt, x = x*, and x is
\* clamped to the bounds the kernel was given
UpdatePosition ==
    /\ PassDone("updatePosition")
    /\ kernelArgs' = [kernelArgs EXCEPT !["updatePosition"] = UpdatePositionArgs]
    /\ \E q \in [ParticleIds ->
                  UNION { ClampToBox(particles[i].posStar, UpdatePositionArgs) :
                            i \in ParticleIds }] :
         /\ \A i \in ParticleIds :
              q[i] \in ClampToBox(particles[i].posStar, UpdatePositionArgs)
         /\ particles' =
              [i \in ParticleIds |->
                 [particles[i] EXCEPT
                    !.vel = VSub(particles[i].posStar, particles[i].pos),
                    !.pos = q[i]]]
    /\ UNCHANGED <<iter, hostVars, gridVars, posDelta>>

\* openCL.finish(): the host waits for the queue to drain; a build with
\* DRAW_PARTICLES_AS_SPHERES then calls readFromGPU(), which reads the
\* parameters back from the device buffer
Finish ==
    /\ pc = "finish"
    /\ pc' = NextPass("finish", iter)
    /\ parameters' \in {parameters, parameterBuffer}
    /\ UNCHANGED <<iter, done, scanVars, log, stepCalls, calls, lastOp,
                   frameNumber, animFrameNumber, bounds, originalBounds,
                   animSettings, cellsPerAxis, numCells, numParticles,
                   parameterBuffer, particles, gridVars, posDelta, kernelArgs>>

\* a step() that animates the bounds whether the animation is enabled or not
AnimateAlways ==
    /\ pc = "animate"
    /\ pc' = NextPass("animate", iter)
    /\ bounds' = StepBoundsAnimation(bounds, originalBounds, animType,
                                     animAmp, animPeriod, animBothSides,
                                     animFrameNumber)
    /\ animFrameNumber' = UIntWrap(animFrameNumber + 1)
    /\ log' = Append(log, "stepBoundsAnimation")
    /\ UNCHANGED <<iter, done, scanVars, stepCalls, calls, lastOp, frameNumber,
                   originalBounds, animSettings, cellsPerAxis, numCells,
                   numParticles, parameters, parameterBuffer, particles,
                   gridVars, posDelta, kernelArgs>>

\* if (animBounds) stepBoundsAnimation()
Animate ==
    /\ pc = "animate"
    /\ pc' = NextPass("animate", iter)
    /\ IF animBounds
       THEN /\ bounds' = StepBoundsAnimation(bounds, originalBounds, animType,
                                             animAmp, animPeriod, animBothSides,
                                             animFrameNumber)
            /\ animFrameNumber' = UIntWrap(animFrameNumber + 1)
            /\ log' = Append(log, "stepBoundsAnimation")
       ELSE UNCHANGED <<bounds, animFrameNumber, log>>
    /\ UNCHANGED <<iter, done, scanVars, stepCalls, calls, lastOp, frameNumber,
                   originalBounds, animSettings, cellsPerAxis, numCells,
                   numParticles, parameters, parameterBuffer, particles,
                   gridVars, posDelta, kernelArgs>>

\* a step() that leaves the frame counter as it is
BumpFrameNumberSkipped == frameNumber

\* a frame counter bumped twice
BumpFrameNumberTwice == UIntWrap(frameNumber + 2)

\* the frame counter after frameNumber++
BumpFrameNumber == UIntWrap(frameNumber + 1)

\* frameNumber++, and step() returns
Frame ==
    /\ pc = "frame"
    /\ pc' = NextPass("frame", iter)
    /\ frameNumber' = BumpFrameNumber
    /\ log' = <<>>
    /\ iter' = 0
    /\ UNCHANGED <<done, scanVars, stepCalls, calls, lastOp, animFrameNumber,
                   bounds, originalBounds, animSettings, cellsPerAxis, numCells,
                   numParticles, parameters, parameterBuffer, particles,
                   gridVars, posDelta, kernelArgs>>

\* the passes of step()
StepPass ==
    \/ ResetParticleQuantities
    \/ ResetCellQuantities
    \/ PredictPosition
    \/ \E i \in ParticleIds : DiscretizeParticlePositions(i)
    \/ ScanBegin
    \/ \E t \in ScanCopiers(ScanSize(ScanLength)) : ScanLoad(t)
    \/ \E t \in ScanWorkers(ScanSize(ScanLength), 1) : ScanUp(t)
    \/ ScanClear
    \/ \E t \in ScanWorkers(ScanSize(ScanLength), 1) : ScanDown(t)
    \/ \E t \in ScanCopiers(ScanSize(ScanLength)) : ScanStore(t)
    \/ \E i \in ParticleIds : CountSortParticlesByCell(i)
    \/ \E i \in ParticleIds : FindParticleBins(i)
    \/ EstimateDensity
    \/ ComputeLambda
    \/ ComputePositionDelta
    \/ UpdatePositionDelta
    \/ ComputeCurl
    \/ UpdatePosition
    \/ Finish
    \/ Animate
    \/ Frame

(***************************************************************************)
(* Spec: a simulation in a box 9 world units wide,                         *)
(* and its public operations, from construction on                         *)
(***************************************************************************)
HostBox == AABB(Vec(0, 0, 0), Vec(36, 16, 9))

\* the numbers of particles Spec is constructed with
HostParticleCounts == {1}

\* the parameters Spec is constructed with: a particle radius of 1 world unit
HostParameters == Parameters(4)

Init ==
    \E n \in HostParticleCounts :
    \E place \in [0 .. (n - 1) -> InitPositions(HostBox, HostParameters.particleRadius)],
       j \in JunkVals :
         Constructed(HostBox, n,
                     FindIdealParticleCount(HostBox, HostParameters.particleRadius),
                     HostParameters, place, j)

HostCall ==
    \/ Reset
    \/ ResetBounds
    \/ \E b \in SetBoundsInputs : SetBounds(b)
    \/ \E r \in RadiusInputs : SetParameters(Parameters(r))
    \/ EnableBoundsAnimation
    \/ DisableBoundsAnimation
    \/ EnableBothSidesAnimation
    \/ DisableBothSidesAnimation
    \/ \E type \in AnimationType : SetAnimationType(type)
    \/ \E period \in PeriodInputs : SetAnimationPeriod(period)
    \/ \E amp \in AmpInputs : SetAnimationAmp(amp)

Next ==
    \/ StepBegin
    \/ StepPass
    \/ HostCall

Spec == Init /\ [][Next]_vars

(***************************************************************************)
(* SpecGrid: the first step of a simulation of GridParticles particles,    *)
(* with the work-items of the grid build interleaved, after the host has   *)
(* replaced the bounds or the parameters or left them alone                *)
(***************************************************************************)
InitGrid ==
    \E place \in [0 .. (GridParticles - 1) -> InitPositions(HostBox, HostParameters.particleRadius)],
       j \in JunkVals :
         Constructed(HostBox, GridParticles,
                     FindIdealParticleCount(HostBox, HostParameters.particleRadius),
                     HostParameters, place, j)

\* step() is entered for the first time
FirstStepBegin ==
    /\ frameNumber = 0
    /\ StepBegin

NextGrid ==
    \/ FirstStepBegin
    \/ StepPass
    \/ \E b \in SetBoundsInputs : frameNumber = 0 /\ SetBounds(b)
    \/ \E r \in RadiusInputs : frameNumber = 0 /\ SetParameters(Parameters(r))

SpecGrid == InitGrid /\ [][NextGrid]_vars

(***************************************************************************)
(* SpecScan: PrefixSum::scan on its own, over every array of at most       *)
(* MaxScanLen entries that are at most MaxCount; the output starts zeroed, *)
(* as resetCellQuantities leaves it                                        *)
(***************************************************************************)
InitScan ==
    \E n \in 0 .. MaxScanLen :
    \E h \in [0 .. (n - 1) -> 0 .. MaxCount] :
       /\ pc = "scan"
       /\ iter = 0
       /\ done = {}
       /\ frameNumber = 0
       /\ animFrameNumber = 0
       /\ bounds = HostBox
       /\ originalBounds = HostBox
       /\ animBounds = FALSE
       /\ animType = "SINE_WAVE"
       /\ animPeriod = DefaultAnimPeriod
       /\ animAmp = DefaultAnimAmp
       /\ animBothSides = FALSE
       /\ cellsPerAxis = Vec(n, 1, 1)
       /\ numCells = n
       /\ numParticles = 1
       /\ parameters = HostParameters
       /\ parameterBuffer = HostParameters
       /\ particles = [i \in 0 .. 0 |-> Particle(Zero)]
       /\ particleToCell = [i \in 0 .. 0 |-> ResetPosition]
       /\ sortedParticleToCell = [i \in 0 .. 0 |-> ResetPosition]
       /\ gridCellOffsets = [c \in 0 .. (n - 1) |-> ResetOffset]
       /\ cellHistogram = h
       /\ cellPrefixSums = [c \in 0 .. (n - 1) |-> 0]
       /\ posDelta = [i \in 0 .. 0 |-> Zero]
       /\ kernelArgs = SetupKernels(HostBox)
       /\ ScanIdle
       /\ log = <<>>
       /\ stepCalls = 1
       /\ calls = 0
       /\ lastOp = "other"

NextScan ==
    \/ ScanBegin
    \/ \E t \in ScanCopiers(ScanSize(ScanLength)) : ScanLoad(t)
    \/ \E t \in ScanWorkers(ScanSize(ScanLength), 1) : ScanUp(t)
    \/ ScanClear
    \/ \E t \in ScanWorkers(ScanSize(ScanLength), 1) : ScanDown(t)
    \/ \E t \in ScanCopiers(ScanSize(ScanLength)) : ScanStore(t)

SpecScan == InitScan /\ [][NextScan]_vars

(***************************************************************************)
(* SpecInit: construction in boxes on either side of the origin, and the   *)
(* steps that follow                                                       *)
(***************************************************************************)
InitBoxes == {HostBox,
              AABB(Vec(0, 8, 0), Vec(36, 16, 9)),
              AABB(Vec(0 - 36, 0 - 16, 0 - 9), Zero)}

InitParticleCounts == {1, 2}

InitAny ==
    \E b \in InitBoxes, n \in InitParticleCounts :
    \E place \in [0 .. (n - 1) -> InitPositions(b, HostParameters.particleRadius)],
       j \in JunkVals :
         Constructed(b, n, FindIdealParticleCount(b, HostParameters.particleRadius),
                     HostParameters, place, j)

NextInit ==
    \/ StepBegin
    \/ StepPass

SpecInit == InitAny /\ [][NextInit]_vars

(***************************************************************************)
(* SpecCtor: the constructor that is given the cells per axis, called with *)
(* configurations of every kind, and the steps that follow                 *)
(***************************************************************************)
\* the boxes SpecCtor constructs with: the box of Spec, and a box of no height
CtorBoxes == {HostBox, AABB(Vec(0, 0, 0), Vec(36, 0, 9))}

CtorParticleCounts == {0, 1}

CtorCellsPerAxis == {Vec(3, 1, 1), Vec(0, 1, 1)}

\* the kernels step() runs over one work-item per particle, work-item by
\* work-item in the model
WorkItemKernels == {"discretizeParticlePositions", "countSortParticlesByCell",
                    "findParticleBins"}

\* Simulation::Simulation(openCL, bounds, numParticles, dt, cellsPerAxis,
\* parameters), followed by initialize()
InitCtor ==
    \E b \in CtorBoxes, n \in CtorParticleCounts, cpa \in CtorCellsPerAxis :
    \E place \in [0 .. (n - 1) -> InitPositions(b, HostParameters.particleRadius)],
       j \in JunkVals :
         Constructed(b, n, cpa, HostParameters, place, j)

NextCtor ==
    \/ StepBegin
    \/ StepPass
    \/ \E k \in WorkItemKernels : EmptyDispatch(k)

SpecCtor == InitCtor /\ [][NextCtor]_vars

(***************************************************************************)
(* SpecAnim: a simulation in a box 5 world units wide whose bounds         *)
(* animation the host has switched on and configured after construction,   *)
(* stepped AnimFrames times                                                *)
(***************************************************************************)
AnimBox == AABB(Vec(0, 0, 0), Vec(20, 8, 8))

\* the simulation as constructed in box b and then configured by
\* enableBoundsAnimation() and those of enableBothSidesAnimation(),
\* setAnimationType, setAnimationPeriod and setAnimationAmp that change a
\* setting, n counting these calls
AnimationConfigured(b, place, j, both, type, period, amp, n) ==
    /\ pc = "idle"
    /\ iter = 0
    /\ done = {}
    /\ frameNumber = 0
    /\ animFrameNumber = 0
    /\ bounds = b
    /\ originalBounds = b
    /\ animBounds = TRUE
    /\ animType = type
    /\ animPeriod = period
    /\ animAmp = amp
    /\ animBothSides = both
    /\ cellsPerAxis = FindIdealParticleCount(b, HostParameters.particleRadius)
    /\ numParticles = 1
    /\ parameters = HostParameters
    /\ numCells = NumCellsOf(FindIdealParticleCount(b, HostParameters.particleRadius))
    /\ particles = [i \in 0 .. 0 |-> Particle(place[i])]
    /\ particleToCell = [i \in 0 .. 0 |-> JunkPosition(j)]
    /\ sortedParticleToCell = [i \in 0 .. 0 |-> JunkPosition(j)]
    /\ gridCellOffsets =
         [c \in 0 .. (NumCellsOf(FindIdealParticleCount(b, HostParameters.particleRadius)) - 1)
            |-> JunkOffset(j)]
    /\ cellHistogram =
         [c \in 0 .. (NumCellsOf(FindIdealParticleCount(b, HostParameters.particleRadius)) - 1)
            |-> j]
    /\ cellPrefixSums =
         [c \in 0 .. (NumCellsOf(FindIdealParticleCount(b, HostParameters.particleRadius)) - 1)
            |-> j]
    /\ posDelta = [i \in 0 .. 0 |-> Vec(j, j, j)]
    /\ kernelArgs = SetupKernels(b)
    /\ parameterBuffer = HostParameters
    /\ ScanIdle
    /\ log = <<>>
    /\ stepCalls = 0
    /\ calls = n
    /\ lastOp = "other"

\* the number of setter calls that lead from the constructed settings to these
SetterCalls(both, type, period, amp) ==
    Cardinality({"enableBoundsAnimation"}
       \cup (IF both THEN {"enableBothSidesAnimation"} ELSE {})
       \cup (IF type # "SINE_WAVE" THEN {"setAnimationType"} ELSE {})
       \cup (IF period # DefaultAnimPeriod THEN {"setAnimationPeriod"} ELSE {})
       \cup (IF amp # DefaultAnimAmp THEN {"setAnimationAmp"} ELSE {}))

InitAnim ==
    \E both \in BOOLEAN, type \in AnimationType,
       period \in PeriodInputs, amp \in AmpInputs :
    \E place \in [0 .. 0 -> InitPositions(AnimBox, HostParameters.particleRadius)],
       j \in JunkVals :
         AnimationConfigured(AnimBox, place, j, both, type, period, amp,
                             SetterCalls(both, type, period, amp))

NextAnim ==
    \/ AnimStepBegin
    \/ StepPass

SpecAnim == InitAnim /\ [][NextAnim]_vars

(***************************************************************************)
(* SpecWave: stepBoundsAnimation as a function of the frame counter, the   *)
(* settings and the current bounds: the simulation of Spec at the call of  *)
(* stepBoundsAnimation in its step number f + 1, for frame counters f      *)
(* around 0, 360, 720 and 1440 and several current bounds                  *)
(***************************************************************************)
WaveFrames == (0 .. 2) \cup (359 .. 361) \cup (718 .. 721) \cup (1439 .. 1441)

\* the current bounds the call finds: the original ones, and bounds that
\* setBounds has put in their place
WaveBounds == {HostBox} \cup SetBoundsInputs \cup {AABB(Vec(4, 0, 0), Vec(32, 16, 9))}

InitWave ==
    \E f \in WaveFrames, cur \in WaveBounds, both \in BOOLEAN,
       type \in AnimationType, period \in PeriodInputs, amp \in AmpInputs :
       /\ pc = "animate"
       /\ iter = SOLVER_ITERATIONS
       /\ done = {}
       /\ frameNumber = f
       /\ animFrameNumber = f
       /\ bounds = cur
       /\ originalBounds = HostBox
       /\ animBounds = TRUE
       /\ animType = type
       /\ animPeriod = period
       /\ animAmp = amp
       /\ animBothSides = both
       /\ cellsPerAxis = FindIdealParticleCount(HostBox, HostParameters.particleRadius)
       /\ numCells = NumCellsOf(FindIdealParticleCount(HostBox, HostParameters.particleRadius))
       /\ numParticles = 1
       /\ parameters = HostParameters
       /\ parameterBuffer = HostParameters
       /\ particles = [i \in 0 .. 0 |-> Particle(Zero)]
       /\ particleToCell = [i \in 0 .. 0 |-> ResetPosition]
       /\ sortedParticleToCell = [i \in 0 .. 0 |-> ResetPosition]
       /\ gridCellOffsets =
            [c \in 0 .. (NumCellsOf(FindIdealParticleCount(HostBox, HostParameters.particleRadius)) - 1)
               |-> ResetOffset]
       /\ cellHistogram =
            [c \in 0 .. (NumCellsOf(FindIdealParticleCount(HostBox, HostParameters.particleRadius)) - 1)
               |-> 0]
       /\ cellPrefixSums =
            [c \in 0 .. (NumCellsOf(FindIdealParticleCount(HostBox, HostParameters.particleRadius)) - 1)
               |-> 0]
       /\ posDelta = [i \in 0 .. 0 |-> Zero]
       /\ kernelArgs = SetupKernels(cur)
       /\ ScanIdle
       /\ log = <<>>
       /\ stepCalls = f + 1
       /\ calls = MaxCalls
       /\ lastOp = "other"

NextWave ==
    \/ Animate
    \/ Frame

SpecWave == InitWave /\ [][NextWave]_vars

(***************************************************************************)
(* SpecFault: the first step of the simulation of SpecGrid, in which the   *)
(* dispatch of one kernel may fail                                         *)
(***************************************************************************)
\* step() is entered for the first time since construction
OnlyStepBegin ==
    /\ stepCalls = 0
    /\ StepBegin

NextFault ==
    \/ OnlyStepBegin
    \/ StepPass
    \/ \E k \in FaultKernels : DispatchFails(k)
    \/ \E k \in FaultKernels : DispatchThrows(k)

SpecFault == InitGrid /\ [][NextFault]_vars

(***************************************************************************)
(* SpecLambda: the first step of the simulation of SpecGrid, after the     *)
(* host has set the relaxation epsilon or left it alone                    *)
(***************************************************************************)
RelaxationInputs == {0, 1, 2}

NextLambda ==
    \/ OnlyStepBegin
    \/ StepPass
    \/ \E eps \in RelaxationInputs :
          /\ stepCalls = 0
          /\ SetParameters(ParametersWith(HostParameters.particleRadius, eps))

SpecLambda == InitGrid /\ [][NextLambda]_vars

(***************************************************************************)
(* SpecReset: steps of a simulation whose bounds animation was configured  *)
(* with the default amplitude, and reset() between the steps               *)
(***************************************************************************)
InitReset ==
    \E both \in BOOLEAN, type \in AnimationType, period \in PeriodInputs :
    \E place \in [0 .. 0 -> InitPositions(AnimBox, HostParameters.particleRadius)],
       j \in JunkVals :
         AnimationConfigured(AnimBox, place, j, both, type, period,
                             DefaultAnimAmp, 0)

NextReset ==
    \/ AnimStepBegin
    \/ StepPass
    \/ stepCalls >= 1 /\ Reset

SpecReset == InitReset /\ [][NextReset]_vars

(***************************************************************************)
(* Properties                                                              *)
(***************************************************************************)
GridBuildPasses == <<"discretizeParticlePositions", "scan",
                     "countSortParticlesByCell", "findParticleBins">>

SolverPasses == <<"estimateDensity", "computeLambda", "computePositionDelta",
                  "updatePositionDelta">>

\* SOLVER_ITERATIONS times the passes of one solver iteration
SolverLoop ==
    [n \in 1 .. (4 * SOLVER_ITERATIONS) |-> SolverPasses[((n - 1) % 4) + 1]]

\* the kernels of one step(), in the order the specification gives them
ExpectedPasses ==
    <<"resetParticleQuantities", "resetCellQuantities", "predictPosition">>
        \o GridBuildPasses \o SolverLoop \o <<"computeCurl", "updatePosition">>

IsPrefix(s, t) == Len(s) <= Len(t) /\ \A n \in 1 .. Len(s) : s[n] = t[n]

\* the positions of step() from which the cell assignments of that step stand
AfterGridBuild == {"estimateDensity", "computeLambda", "computePositionDelta",
                   "updatePositionDelta", "computeCurl", "updatePosition",
                   "finish", "animate", "frame"}

AfterDiscretize == {"scan", "countSortParticlesByCell", "findParticleBins"}
                       \cup AfterGridBuild

\* the sum of the entries of an array of counts
SumOf(f) == Cardinality(UNION { {c} \X (1 .. f[c]) : c \in DOMAIN f })

\* no operation has run since construction
FreshlyConstructed == pc = "idle" /\ stepCalls = 0 /\ calls = 0

\* C1: every step() dispatches its passes in the one order: the two resets,
\* predictPosition, the grid build, SOLVER_ITERATIONS solver iterations of
\* four passes each, computeCurl, updatePosition, and only then the bounds
\* animation; what has been dispatched so far is always a prefix of that
\* order, and all of it has been when the step comes to its end
C1_StepRunsPassesInOrder ==
    /\ IsPrefix(log, ExpectedPasses \o <<"stepBoundsAnimation">>)
    /\ pc \in {"finish", "animate"} => log = ExpectedPasses
    /\ pc = "frame" =>
         log = IF animBounds THEN ExpectedPasses \o <<"stepBoundsAnimation">>
               ELSE ExpectedPasses

\* a step with the bounds animation on has run all its passes
C1_AnimatedStepAtItsEnd ==
    /\ pc = "frame"
    /\ animBounds
    /\ Len(log) = Len(ExpectedPasses) + 1

\* C2: frameNumber is the number of step() calls completed since
\* construction or the last reset(): between steps it equals the calls made,
\* within a step it is one behind, and no other operation moves it
C2_FrameNumberCountsSteps ==
    frameNumber = IF pc = "idle" THEN stepCalls ELSE stepCalls - 1

\* one step has completed since a reset() that followed setBounds: the
\* particle was placed in the replaced bounds
C2_OneStepSinceReset ==
    /\ pc = "idle"
    /\ frameNumber = 1
    /\ \E i \in ParticleIds : particles[i].pos.x = 19

\* C3: after the grid build every entry of the slice of cell c has key c,
\* the lengths of the slices sum to numParticles, and every particle is in
\* exactly one slot of exactly one slice
C3_SlicesPartitionParticles ==
    pc \in AfterGridBuild =>
      LET slots(c) == gridCellOffsets[c].start ..
                        (gridCellOffsets[c].start + gridCellOffsets[c].length - 1)
      IN  /\ \A c \in CellIds : \A s \in slots(c) :
                s \in ParticleIds /\ sortedParticleToCell[s].key = c
          /\ SumOf([c \in CellIds |-> gridCellOffsets[c].length]) = numParticles
          /\ \A i \in ParticleIds :
                Cardinality({ cs \in CellIds \X ParticleIds :
                                /\ cs[2] \in slots(cs[1])
                                /\ sortedParticleToCell[cs[2]].particleIndex = i }) = 1

C5_AssignedCellsAreInGrid ==
    pc \in AfterDiscretize =>
      \A i \in ParticleIds :
         /\ SubscriptInGrid(Vec(particleToCell[i].cellI, particleToCell[i].cellJ,
                                particleToCell[i].cellK), cellsPerAxis)
         /\ particleToCell[i].key \in CellIds

C7_CommittedPositionsInBounds ==
    pc = "finish" =>
      \A i \in ParticleIds : InBox(particles[i].pos, kernelArgs["updatePosition"])

\* C8: in every solver iteration, two particles whose predicted positions
\* are within the interaction radius of each other are in each other's
\* neighbour set
C8_NeighboursWithinRadiusAreEnumerated ==
    pc \in {"estimateDensity", "computeLambda", "computePositionDelta"} =>
      \A i, j \in ParticleIds :
         (i # j /\ Dist2(particles[i].posStar, particles[j].posStar)
                      <= parameterBuffer.particleRadius * parameterBuffer.particleRadius)
            => \A ns \in NeighborSets(i, bounds) : j \in ns

\* C9: a call of reset() zeroes frameNumber and animFrameNumber, restores the
\* bounds to originalBounds, allocates every particle and cell buffer anew
\* and places the particles again, with no predicted position and no
\* velocity, and leaves numParticles, cellsPerAxis and numCells as they were
C9_ResetEffect ==
    [][(calls' # calls /\ lastOp' = "reset") =>
          /\ frameNumber' = 0
          /\ animFrameNumber' = 0
          /\ bounds' = originalBounds
          /\ numParticles' = numParticles
          /\ cellsPerAxis' = cellsPerAxis
          /\ numCells' = numCells
          /\ DOMAIN particles' = ParticleIds
          /\ \A i \in ParticleIds :
                /\ particles'[i].posStar = Zero
                /\ particles'[i].vel = Zero
                /\ particles'[i].pos \in InitPositions(bounds, parameters.particleRadius)
          /\ DOMAIN particleToCell' = ParticleIds
          /\ DOMAIN sortedParticleToCell' = ParticleIds
          /\ DOMAIN posDelta' = ParticleIds
          /\ DOMAIN cellHistogram' = CellIds
          /\ DOMAIN cellPrefixSums' = CellIds
          /\ DOMAIN gridCellOffsets' = CellIds]_vars

\* reset() has just run on a simulation whose bounds the animation had moved
C9_ResetAfterAnimatedSteps ==
    /\ lastOp = "reset"
    /\ animBounds
    /\ calls = 2
    /\ kernelArgs["updatePosition"] # originalBounds
    /\ bounds = originalBounds
    /\ frameNumber = 0

\* C10: a freshly constructed simulation has every particle at rest and
\* within the bounds on each axis
C10_InitialParticlesInBounds ==
    FreshlyConstructed =>
      \A i \in ParticleIds :
         /\ particles[i].vel = Zero
         /\ InBox(particles[i].pos, bounds)

\* the configuration the constructor was given is one the specification
\* accepts: a particle at least, a cell at least along each axis, and a box
\* with min < max on each axis
ValidConfiguration ==
    /\ numParticles > 0
    /\ \A a \in Axes : cellsPerAxis[a] > 0
    /\ ValidBox(originalBounds)

\* C11: construction rejects a configuration error, so that no simulation
\* with numParticles <= 0, a cellsPerAxis component <= 0 or a box with
\* min >= max on some axis is ever stepped
C11_OnlyValidConfigurationsAreStepped == stepCalls > 0 => ValidConfiguration

\* C12: the device parameter buffer holds the host parameters whenever a
\* kernel can read it, at the start of every step() in particular, after any
\* sequence of setParameters, step and reset; and the parameters change only
\* by a call between steps, after which getParameters() and the device buffer
\* both give the value that was set
C12_DeviceParametersFollowHost ==
    /\ [](parameterBuffer = GetParameters)
    /\ [][parameters' # parameters =>
            /\ pc = "idle" /\ pc' = "idle" /\ calls' = calls + 1
            /\ \E r \in RadiusInputs :
                  GetParameters' = Parameters(r) /\ parameterBuffer' = Parameters(r)]_vars

\* a step() is entered after setParameters has replaced the radius
C12_StepAfterSetParameters ==
    /\ pc = "resetParticleQuantities"
    /\ frameNumber >= 1
    /\ parameters # HostParameters
    /\ parameterBuffer = parameters

\* the frame counter the last stepBoundsAnimation() worked with
AnimatedFrame == animFrameNumber - 1

\* stepBoundsAnimation() has just run in this step
JustAnimated == pc = "frame" /\ animBounds

\* the bounds stepBoundsAnimation() would have left in this step, had it
\* found b as the current bounds
AnimatedFrom(b) ==
    StepBoundsAnimation(b, originalBounds, animType, animAmp, animPeriod,
                        animBothSides, AnimatedFrame)

\* C13 as stated: whatever the current bounds before the call, the bounds
\* after stepBoundsAnimation are the same, for every waveform
C13_AnimatedBoundsIgnoreCurrentBounds ==
    JustAnimated => \A b \in WaveBounds : bounds = AnimatedFrom(b)

\* C13 as the program has it: under SINE_WAVE and LINEAR_RAMP the x of the
\* max corner after the call, and with both sides the x of the min corner,
\* are the same whatever the current bounds before the call
C13_WaveCornersIgnoreCurrentBounds ==
    (JustAnimated /\ animType \in {"SINE_WAVE", "LINEAR_RAMP"}) =>
       \A b \in WaveBounds :
          /\ bounds.maxV.x = AnimatedFrom(b).maxV.x
          /\ animBothSides => bounds.minV.x = AnimatedFrom(b).minV.x

\* a ramp on both sides has moved both corners of bounds that setBounds had
\* put in the place of the original ones
C13_RampFromReplacedBounds ==
    /\ JustAnimated
    /\ animType = "LINEAR_RAMP"
    /\ animBothSides
    /\ bounds.maxV.y # originalBounds.maxV.y
    /\ bounds.maxV.x # originalBounds.maxV.x
    /\ bounds.minV.x # originalBounds.minV.x

\* the width of a box along x
WidthX(b) == b.maxV.x - b.minV.x

\* bounds.max.x >= limitMaxX, with limitMaxX = origMaxX - 0.33 * width
AboveLimitMaxX ==
    200 * bounds.maxV.x >= 200 * originalBounds.maxV.x
                             - CompressLimitPct * WidthX(originalBounds)

\* bounds.min.x <= limitMinX, with limitMinX = origMinX + 0.33 * width
BelowLimitMinX ==
    200 * bounds.minV.x <= 200 * originalBounds.minV.x
                             + CompressLimitPct * WidthX(originalBounds)

\* C14 as stated: under COMPRESS the width of the current bounds never falls
\* below 2/3 of the original width, with and without both-sides animation
C14_CompressKeepsTwoThirdsOfWidth ==
    animType = "COMPRESS" => 3 * WidthX(bounds) >= 2 * WidthX(originalBounds)

\* C14 as the program has it: under COMPRESS max X never increases; a frame
\* moves it down by the step 0.25 if it is at or above
\* origMaxX - 0.33 * width and leaves it otherwise, so it stays at or above
\* that limit less one step; with both sides min X moves up likewise to at
\* most origMinX + 0.33 * width plus one step.  The width stays at or above
\* 0.67 of the original less one step on one side, 0.34 of the original
\* less two steps on both
C14_CompressContractsToItsLimits ==
    /\ [](animType = "COMPRESS" =>
            /\ 200 * bounds.maxV.x >= 200 * originalBounds.maxV.x
                    - CompressLimitPct * WidthX(originalBounds) - 200 * CompressStep
            /\ 200 * bounds.minV.x <= 200 * originalBounds.minV.x
                    + CompressLimitPct * WidthX(originalBounds) + 200 * CompressStep
            /\ ~animBothSides => bounds.minV.x = originalBounds.minV.x
            /\ 100 * WidthX(bounds) >=
                 IF animBothSides
                 THEN (100 - CompressLimitPct) * WidthX(originalBounds)
                         - 200 * CompressStep
                 ELSE (100 - (CompressLimitPct \div 2)) * WidthX(originalBounds)
                         - 100 * CompressStep)
    /\ [][animType = "COMPRESS" =>
            /\ bounds'.maxV.x <= bounds.maxV.x
            /\ bounds'.maxV.x =
                 IF pc = "animate" /\ AboveLimitMaxX
                 THEN bounds.maxV.x - CompressStep ELSE bounds.maxV.x
            /\ bounds'.minV.x =
                 IF pc = "animate" /\ animBothSides /\ BelowLimitMinX
                 THEN bounds.minV.x + CompressStep ELSE bounds.minV.x]_vars

\* COMPRESS on both sides has come to rest: the box 5 wide is 1.5 wide
C14_CompressedFromBothSides ==
    /\ pc = "idle"
    /\ animType = "COMPRESS"
    /\ animBothSides
    /\ ~AboveLimitMaxX
    /\ ~BelowLimitMinX
    /\ frameNumber = AnimFrames
    /\ 3 * WidthX(bounds) < WidthX(originalBounds)

\* C15: under SINE_WAVE the frame with counter 0 leaves max X at the
\* original max X, and the bounds a frame produces are those the frame 720
\* later produces, from whatever current bounds
C15_SineStartsAtZeroAndRepeats ==
    (JustAnimated /\ animType = "SINE_WAVE") =>
       /\ AnimatedFrame = 0 => bounds.maxV.x = originalBounds.maxV.x
       /\ bounds.maxV.x =
            AnimMaxX(bounds, originalBounds, animType, animAmp, animPeriod,
                     AnimatedFrame + SinePeriodFrames)
       /\ \A b \in WaveBounds :
             AnimatedFrom(b) =
                StepBoundsAnimation(b, originalBounds, animType, animAmp,
                                    animPeriod, animBothSides,
                                    AnimatedFrame + SinePeriodFrames)

\* the sine wave has run with frame counter 721 and moved max X as it does
\* with frame counter 1
C15_SineAfterTwoTurns ==
    /\ JustAnimated
    /\ animType = "SINE_WAVE"
    /\ AnimatedFrame = SinePeriodFrames + 1
    /\ bounds.maxV.x # originalBounds.maxV.x
    /\ bounds.maxV.x = originalBounds.maxV.x - SineValue(animAmp, animPeriod, 1)

Abs(v) == IF v >= 0 THEN v ELSE 0 - v

\* how far the current max X lies below the original one
OffsetX(b) == originalBounds.maxV.x - b.maxV.x

\* the ramp of this frame: stepBoundsAnimation() is about to run under LINEAR_RAMP
RampFrame == pc = "animate" /\ animBounds /\ animType = "LINEAR_RAMP"

\* C16 as stated: under LINEAR_RAMP the offset stays within [-amp, +amp] and
\* changes between consecutive frames by no more than the slope step
\* 2 * amp * dt / period (two model units allowed for rounding) from the
\* second frame on: no jump
C16_RampIsContinuous ==
    [][RampFrame =>
         /\ Abs(OffsetX(bounds')) <= animAmp
         /\ animFrameNumber >= 1 =>
              DtInv * animPeriod * Abs(OffsetX(bounds') - OffsetX(bounds))
                 < 20 * animAmp + 2 * DtInv * animPeriod]_vars

\* C16 as the program has it: the offset is a sawtooth of tPeriod.  It stays
\* within [-amp, +amp] and is 0 in the frame with counter 0; from one frame
\* to the next it rises by the slope step
\* 2 * amp * dt / period, or, when tPeriod has passed a half-integer, rises by
\* that step and drops by 2 * amp; with both sides min X is displaced by the
\* same offset the other way
C16_RampIsSawtooth ==
    [][RampFrame =>
         LET q == DtInv * animPeriod
             d == OffsetX(bounds') - OffsetX(bounds)
         IN  /\ Abs(OffsetX(bounds')) <= animAmp
             /\ \/ animFrameNumber = 0 /\ OffsetX(bounds') = 0
                \/ animFrameNumber >= 1 /\ Abs(q * d - 20 * animAmp) < 2 * q
                \/ /\ animFrameNumber >= 1
                   /\ Abs(q * d - (20 * animAmp - 2 * animAmp * q)) < 2 * q
             /\ animBothSides =>
                  bounds'.minV.x - originalBounds.minV.x = OffsetX(bounds')]_vars

\* the ramp has dropped from +2/3 amp to -2/3 amp within one frame: max X is
\* beyond the original max X
C16_RampHasDropped ==
    /\ JustAnimated
    /\ animType = "LINEAR_RAMP"
    /\ AnimatedFrame = 2
    /\ 0 - OffsetX(bounds) > animAmp \div 2

\* C17: no action of step(), stepBoundsAnimation() among them, changes the
\* Y or the Z of a corner of the current bounds, whatever the waveform and
\* the both-sides setting; stepBoundsAnimation() changes the X of the corners
\* at most
C17_StepKeepsYAndZOfBounds ==
    [][calls' = calls =>
         /\ \A a \in {"y", "z"} :
               /\ bounds'.minV[a] = bounds.minV[a]
               /\ bounds'.maxV[a] = bounds.maxV[a]
         /\ bounds' # bounds => pc = "animate" /\ animBounds]_vars

\* stepBoundsAnimation() has just moved both corners of the bounds along x
C17_BothCornersMoved ==
    /\ JustAnimated
    /\ bounds.maxV.x # kernelArgs["updatePosition"].maxV.x
    /\ bounds.minV.x # kernelArgs["updatePosition"].minV.x
    /\ bounds.maxV.y = kernelArgs["updatePosition"].maxV.y

\* C18: reset() and resetBounds() set animFrameNumber to 0; no other public
\* operation changes it, and within step() only stepBoundsAnimation() does,
\* once and by exactly one: the counter never decreases but by a reset
C18_AnimFrameNumberCountsUp ==
    [][/\ (calls' # calls /\ lastOp' \in {"reset", "resetBounds"}) =>
             animFrameNumber' = 0
       /\ (calls' # calls /\ lastOp' \notin {"reset", "resetBounds"}) =>
             animFrameNumber' = animFrameNumber
       /\ calls' = calls =>
             animFrameNumber' =
                IF pc = "animate" /\ animBounds THEN animFrameNumber + 1
                ELSE animFrameNumber]_vars

\* resetBounds() has just set the counter back to 0, after steps of which
\* the last ran with bounds the animation had moved
C18_ResetBoundsAfterAnimatedSteps ==
    /\ lastOp = "resetBounds"
    /\ animFrameNumber = 0
    /\ frameNumber >= 2
    /\ animBounds
    /\ calls = 2
    /\ kernelArgs["updatePosition"] # originalBounds

\* C19: originalBounds is what the constructor was given, for good: no
\* step(), stepBoundsAnimation(), setBounds(), resetBounds() or reset()
\* changes it
C19_OriginalBoundsNeverChange ==
    /\ [](originalBounds = HostBox)
    /\ [][originalBounds' = originalBounds]_vars

\* the current bounds, replaced by setBounds() and then moved by the
\* animation, are no longer the original ones
C19_CurrentBoundsReplacedAndAnimated ==
    /\ pc = "idle"
    /\ bounds # originalBounds
    /\ \E b \in SetBoundsInputs : bounds # b /\ bounds.maxV.y = b.maxV.y
    /\ animFrameNumber >= 1

\* C20: the outcome of step() is determined by the particle state, the
\* parameters and the bounds it starts from, whatever the order of the
\* work-items of the histogram and scatter passes: after the grid build the
\* slice of every cell holds exactly the particles that were assigned that
\* cell, and the position updatePosition commits is the one clamp of the
\* predicted position
C20_StepOutcomeIsDetermined ==
    /\ pc \in AfterGridBuild =>
         \A c \in CellIds :
            CellSlice(c) = { i \in ParticleIds : particleToCell[i].key = c }
    /\ pc = "finish" =>
         \A i \in ParticleIds :
            ClampToBox(particles[i].posStar, kernelArgs["updatePosition"])
               = {particles[i].pos}

\* C21: a step in which a pass could not complete has not happened: when the
\* first step() after construction returns from a failed dispatch, the
\* particles are as constructed, at rest and with no predicted position, and
\* frameNumber and the bounds are those of construction
C21_FailedStepLeavesStateAsBefore ==
    (pc = "idle" /\ lastOp = "stepFailed") =>
       /\ frameNumber = 0
       /\ bounds = originalBounds
       /\ \A i \in ParticleIds :
             /\ particles[i].posStar = Zero
             /\ particles[i].vel = Zero
             /\ particles[i].pos \in InitPositions(HostBox, HostParameters.particleRadius)

KeysOf(i) ==
    { Sub2Ind(sub, cellsPerAxis) :
        sub \in Subscripts(particles[i].posStar,
                           kernelArgs["discretizeParticlePositions"], cellsPerAxis) }

\* the particles whose cell assignment has key c
ParticlesOfKey(c) == { i \in ParticleIds : particleToCell[i].key = c }

HistogramBefore(c) == SumOf([k \in { d \in CellIds : d < c } |-> cellHistogram[k]])

\* the slots of sortedParticleToCell that hold the assignment of particle i
SlotsOf(i) == { s \in ParticleIds : sortedParticleToCell[s] = particleToCell[i] }

\* C24: when countSortParticlesByCell has completed, in whatever order its
\* work-items ran, every particle holds a slot of sortedParticleToCell no
\* other particle holds, and the slot of a particle of key c lies in
\* [CellPrefixSum[c], CellPrefixSum[c] + CellHistogram[c])
C24_ScatterSlotsAreDisjointAndInRange ==
    pc = "findParticleBins" =>
       \A i \in ParticleIds :
          /\ SlotsOf(i) # {}
          /\ particleToCell[i].key \in CellIds =>
                \A s \in SlotsOf(i) :
                   /\ HistogramBefore(particleToCell[i].key) <= s
                   /\ s < HistogramBefore(particleToCell[i].key)
                            + cellHistogram[particleToCell[i].key]

\* C25: the passes of the grid build run one after the other: the histogram
\* and the prefix sums are zero when the first increment runs, every
\* particle has its cell when the scan runs, the prefix sums are the scanned
\* histogram when the first slot is claimed, every slot is claimed when
\* findParticleBins starts on offsets nothing has written yet, and
\* work-items are in flight only of the one pass that is running
C25_GridBuildPassesRunInOrder ==
    /\ (pc = "discretizeParticlePositions" /\ done = {}) =>
          /\ \A c \in CellIds : cellHistogram[c] = 0 /\ cellPrefixSums[c] = 0
          /\ \A i \in ParticleIds : particleToCell[i] = ResetPosition
    /\ pc = "scan" =>
          /\ \A i \in ParticleIds : particleToCell[i].particleIndex = i
          /\ \A i \in ParticleIds : sortedParticleToCell[i] = ResetPosition
    /\ (pc = "countSortParticlesByCell" /\ done = {}) =>
          /\ scanPhase = "done"
          /\ \A c \in CellIds : cellPrefixSums[c] = HistogramBefore(c)
          /\ \A i \in ParticleIds : sortedParticleToCell[i] = ResetPosition
    /\ pc = "countSortParticlesByCell" =>
          \A c \in CellIds : gridCellOffsets[c] = ResetOffset
    /\ (pc = "findParticleBins" /\ done = {}) =>
          /\ \A c \in CellIds :
                cellPrefixSums[c] = HistogramBefore(c) + cellHistogram[c]
          /\ \A c \in CellIds : gridCellOffsets[c] = ResetOffset
    /\ pc \in AfterGridBuild => IsPrefix(GridBuildPasses,
                                         SubSeq(log, 4, Len(log)))
    /\ done # {} => pc \in WorkItemKernels \cup {"scan"}

\* the scatter is half done: one particle has claimed its slot, the other
\* has not, and both are in the same cell
C25_ScatterHalfDone ==
    /\ pc = "countSortParticlesByCell"
    /\ Cardinality(done) = 1
    /\ \E c \in CellIds : cellHistogram[c] = 2

\* C26: after the grid build, the offset of every cell has the length the
\* histogram counts for the cell; a cell with particles starts at the
\* exclusive prefix sum of the histogram, and a cell without is marked
\* invalid by a start of -1 and a length of 0
C26_OffsetsMatchHistogramAndPrefixSums ==
    pc \in AfterGridBuild =>
       \A c \in CellIds :
          /\ gridCellOffsets[c].length = cellHistogram[c]
          /\ cellHistogram[c] > 0 => gridCellOffsets[c].start = HistogramBefore(c)
          /\ cellHistogram[c] = 0 => gridCellOffsets[c] = ResetOffset

\* the pass that ran last in the running step
LastPass == IF log = <<>> THEN "none" ELSE log[Len(log)]

\* C27: a solver iteration is a Jacobi update: computePositionDelta leaves
\* every predicted position as it is, and updatePositionDelta runs next,
\* after every delta has been computed, on deltas that the neighbours at the
\* positions of before the update account for, and adds to every predicted
\* position its own delta, all at once
C27_SolverIterationIsJacobi ==
    [][/\ pc = "computePositionDelta" =>
             /\ particles' = particles
             /\ pc' = "updatePositionDelta"
       /\ pc = "updatePositionDelta" =>
             /\ LastPass = "computePositionDelta"
             /\ posDelta' = posDelta
             /\ \A i \in ParticleIds :
                   /\ particles'[i].posStar
                         = VAdd(particles[i].posStar, posDelta[i])
                   /\ posDelta[i] # Zero =>
                         \E ns \in NeighborSets(i, bounds) : ns \ {i} # {}]_vars

\* the first solver iteration has moved one particle and left the other
C27_OneParticleMoved ==
    /\ pc = "estimateDensity"
    /\ iter = 1
    /\ \E i, j \in ParticleIds :
          /\ posDelta[i] # Zero
          /\ posDelta[j] = Zero
          /\ particles[i].posStar.x # particles[i].pos.x

\* the positions of step() at and after openCL.finish()
HostTail == {"finish", "animate", "frame"}

\* every pass of the running step has been dispatched and has run to its end
DeviceWorkDone ==
    /\ done = {}
    /\ scanPhase = "done"
    /\ IsPrefix(ExpectedPasses, log)

\* C28: the end of step() is a synchronization point: when the host waits
\* in finish(), and from then to the return of step(), every pass of the
\* step has run to its end; the parameters are read back, the bounds
\* animated and the frame counters advanced only from there on, and the
\* next step's first pass is dispatched only after step() has returned
C28_EndOfStepIsSynchronizationPoint ==
    /\ [](pc \in HostTail => DeviceWorkDone)
    /\ [][/\ (\/ bounds' # bounds
              \/ frameNumber' # frameNumber
              \/ animFrameNumber' # animFrameNumber
              \/ parameters' # parameters) => pc \in HostTail \cup {"idle"}
          /\ pc' = "resetParticleQuantities" => pc = "idle"
          /\ pc' = "idle" => pc \in {"idle", "frame"}]_vars

\* a second step has come to its end, the bounds animated after the device
\* work of the step, which ran with the bounds of before
C28_BoundsMovedAfterDeviceWork ==
    /\ pc = "frame"
    /\ stepCalls = 2
    /\ animFrameNumber = 2
    /\ bounds # kernelArgs["updatePosition"]

\* C29: within a step() the bounds and animFrameNumber change only in the
\* bounds animation, which runs only if animBounds is set, after
\* updatePosition and once: a step() with animBounds false leaves both as
\* they are, a step() with animBounds true adds one to animFrameNumber
C29_BoundsAnimationOnlyWhenEnabled ==
    /\ [](pc = "frame" =>
             log = ExpectedPasses
                      \o (IF animBounds THEN <<"stepBoundsAnimation">> ELSE <<>>))
    /\ [][pc # "idle" =>
             /\ (bounds' # bounds \/ animFrameNumber' # animFrameNumber) =>
                   /\ animBounds
                   /\ pc = "animate"
                   /\ LastPass = "updatePosition"
             /\ animBounds' = animBounds
             /\ (pc = "animate" /\ animBounds) =>
                   animFrameNumber' = animFrameNumber + 1
             /\ (pc = "animate" /\ ~animBounds) =>
                   UNCHANGED <<bounds, animFrameNumber>>]_vars

\* a step() without bounds animation has run to its end after one with has
\* moved the bounds
C29_PlainStepAfterAnimatedStep ==
    /\ pc = "frame"
    /\ ~animBounds
    /\ animFrameNumber >= 1
    /\ animFrameNumber < stepCalls
    /\ bounds # originalBounds

\* the places of the grid build in the passes of a step
GridBuildPlaces == 4 .. 3 + Len(GridBuildPasses)

\* C30: the spatial index is built once in a step, by the four passes that
\* follow predictPosition, before the first solver iteration; from then to
\* the end of the step no pass is a pass of the grid build and nothing
\* writes the cell assignments, the histogram, the prefix sums, the sorted
\* assignments or the cell offsets, whatever the solver does to the
\* predicted positions
C30_GridIsBuiltOncePerStep ==
    /\ [](/\ \A n \in 1 .. Len(log) :
                (\E m \in 1 .. Len(GridBuildPasses) : log[n] = GridBuildPasses[m])
                   <=> /\ n \in GridBuildPlaces
                       /\ log[n] = GridBuildPasses[n - 3]
          /\ pc \in AfterGridBuild \cup HostTail =>
                /\ Len(log) >= 3 + Len(GridBuildPasses)
                /\ log[3] = "predictPosition")
    /\ [][(pc \in AfterGridBuild \cup HostTail) => gridVars' = gridVars]_vars

\* the solver has moved a particle out of the cell the grid build assigned
\* it, and the step goes on with the index as it was built
C30_ParticleLeftItsCell ==
    /\ pc = "updatePosition"
    /\ \E i \in ParticleIds :
          /\ particleToCell[i].key \in CellIds
          /\ particleToCell[i].key \notin KeysOf(i)

\* the kernels step() dispatches with the bounds as arguments
DispatchedBoundsKernels == BoundsKernels \ {"resolveCollisions"}

\* kernel k has been dispatched in the running step
Dispatched(k) == \E n \in 1 .. Len(log) : log[n] = k

\* C31: within a step() the bounds stay as they were when the step began
\* until the bounds animation at its end, and every kernel that takes the
\* bounds is dispatched with them, whatever bounds the kernel was given
\* when its arguments were bound before; at the end of the step all these
\* kernels have run with the same bounds
C31_KernelsRunWithBoundsOfStep ==
    /\ [](pc \notin {"idle", "frame"} =>
             \A k \in DispatchedBoundsKernels :
                Dispatched(k) => kernelArgs[k] = bounds)
    /\ [](pc \in HostTail =>
             \A k, l \in DispatchedBoundsKernels :
                Dispatched(k) /\ kernelArgs[k] = kernelArgs[l])
    /\ [][(pc \notin {"idle", "animate"}) => bounds' = bounds]_vars

\* a step has run all its kernels with bounds that are not those of
\* construction: setBounds has replaced them and the animation has moved them
C31_KernelsRanWithMovedBounds ==
    /\ pc = "finish"
    /\ animFrameNumber >= 1
    /\ bounds.maxV.x # originalBounds.maxV.x
    /\ bounds.maxV.y # originalBounds.maxV.y
    /\ kernelArgs["resolveCollisions"] = originalBounds
    /\ \A k \in DispatchedBoundsKernels : kernelArgs[k] = bounds

\* C32: under the bounds animation the current bounds stay a box of
\* positive width along x
C32_BoundsStayNonDegenerate == bounds.minV.x < bounds.maxV.x

\* C33: when step() has returned, with the bounds animated for the step to
\* come, the position of every particle lies within the current bounds
C33_PositionsInBoundsAfterStep ==
    (pc = "idle" /\ stepCalls >= 1) =>
       \A i \in ParticleIds : InBox(particles[i].pos, bounds)

\* C34: when reset() has returned, the bounds are the original bounds and
\* every particle's new position lies within them
C34_ResetPlacesParticlesInBounds ==
    (pc = "idle" /\ lastOp = "reset") =>
       /\ bounds = originalBounds
       /\ \A i \in ParticleIds : InBox(particles[i].pos, bounds)

\* C35: whenever step(), reset(), resetBounds() or a setter has returned,
\* animFrameNumber is at most frameNumber; within step() the same holds
\* until the bounds animation, which counts its frame one statement before
\* frameNumber++ counts the step
C35_AnimFrameNumberAtMostFrameNumber ==
    /\ pc # "frame" => animFrameNumber <= frameNumber
    /\ pc = "frame" => animFrameNumber <= frameNumber + 1

\* two animated steps have returned and both counters have counted both
C35_EveryStepAnimated ==
    /\ pc = "idle"
    /\ frameNumber >= 2
    /\ animFrameNumber = frameNumber

====
